---- MODULE Spec2Model ----
(***************************************************************************)
(* A model of the FreeCAD-Brick generator scripts: regular_brick.py,       *)
(* regular_bigbrick.py, holed_brick.py, corner_brick.py, slope_brick.py    *)
(* and pocket_brick.py.                                                    *)
(*                                                                         *)
(* Lengths are fixed-point: every *_mm definition holds the source's       *)
(* value in micrometres (7.800 mm is 7800), so that the halves and sums    *)
(* the scripts compute are exact integers.                                 *)
(*                                                                         *)
(* A state is one run of one script: the module-level dictionaries, the    *)
(* offset cursor, the FreeCAD document, the files written, and the         *)
(* position of the single thread of control inside the current make_*      *)
(* call.                                                                   *)
(***************************************************************************)
EXTENDS Integers, Sequences, FiniteSets, TLC

VARIABLES
    script,             \* which of the six scripts this run executes
    menu,               \* the driver section's shape: "single", "batch" or "wide"
    series,             \* the loop of make_brick_series in progress, or NoSeries
    ncalls,             \* generation calls made so far in this run
    pc,                 \* position of the thread of control
    call,               \* the generation call in progress or last made
    brick_name,         \* the local brick_name / pocket_name of the call
    pocket_tuple,       \* the local pocket_tuple of create_pocket
    bricks,             \* dictionary bricks (regular, corner, slope scripts)
    rectangular_bricks, \* dictionary rectangular_bricks (regular_brick.py)
    holed_bricks,       \* dictionary holed_bricks (holed_brick.py)
    bigbricks,          \* dictionary bigbricks (regular_bigbrick.py)
    offset,             \* the global offset cursor
    compound_list,      \* the local compound_list of the call
    ring_template,      \* the ring template of the current brick, or NoObject
    finished,           \* the finished, placed object of the call, or NoObject
    doc,                \* names of the template and result objects in the document
    exported,           \* paths written by Mesh.export
    scene,              \* the finished bricks of this run, in order
    probe,              \* inputs of a pure-function evaluation
    result              \* its result

vars == <<script, menu, series, ncalls, pc, call, brick_name, pocket_tuple, bricks,
          rectangular_bricks, holed_bricks, bigbricks, offset, compound_list,
          ring_template, finished, doc, exported, scene, probe, result>>

runvars == <<script, menu, series, ncalls, pc, call, brick_name, pocket_tuple, bricks,
             rectangular_bricks, holed_bricks, bigbricks, offset, compound_list,
             ring_template, finished, doc, exported, scene>>

(***************************************************************************)
(* Program constants, in micrometres.                                      *)
(***************************************************************************)
stud_radius_mm == 2475
stud_center_spacing_mm == 8000
stud_height_mm == 1700
plate_height_mm == 3200
gap_mm == 200
brick_width_mm == 7800
wall_thickness_mm == 1500
top_thickness_mm == 1000
ring_radius_outer_mm == 3250
ring_radius_inner_mm == 2500
slope_start_height_mm == 1600
roof_thickness_mm == 1000

studring_center_spacing_mm == 16000
bigplate_height_mm == 9600
bigbrick_width_mm == 15800
bigwall_thickness_mm == 3000
bigtop_thickness_mm == 2000
big_ring_radius_outer_mm == 6700
big_ring_radius_inner_mm == 5400
studring_radius_mm == 4800
studring_height_mm == 4400
studring_wall_mm == 1200
cone_height_mm == 9000

(***************************************************************************)
(* Bounds of the model.                                                    *)
(***************************************************************************)
MaxCalls == 2       \* calls of a batch driver
MaxStuds == 4       \* largest stud count of a single call
MaxPlates == 3      \* largest plate count of a single call
MaxSide == 2        \* largest side / hole / arm count of holed and corner calls
MaxWideStuds == 41  \* the stud count of the wide bricks of a "wide" driver
MaxProbeStuds == 45 \* largest stud count handed to the conversion alone
MaxProbePlates == 16 \* largest plate_z handed to one naming call alone
MaxProbeDigits == 2 \* longest numeral among the parameters of a pair of naming calls

NoObject == [kind |-> "none"]
NoCall == [fn |-> "none", args |-> <<>>, accepted |-> FALSE]
NoProbe == [kind |-> "none"]
NoSeries == [active |-> FALSE]
NoResult == [done |-> FALSE]

(***************************************************************************)
(* Unit conversion.                                                        *)
(***************************************************************************)
convert_studs_to_mm_gap_per_stud(studs) ==
    (studs * brick_width_mm) + (studs * gap_mm)

convert_studs_to_mm(studs) ==
    (studs * brick_width_mm) + ((studs - 1) * gap_mm)

bigbrick_convert_studs_to_mm(studs) ==
    (studs * bigbrick_width_mm) + ((studs - 1) * gap_mm)

(***************************************************************************)
(* Naming.  str() of an integer is its decimal numeral, which is what      *)
(* ToString gives; + on strings is \o.                                     *)
(***************************************************************************)
str(n) == ToString(n)

name_a_brick_brick_first(studs_x, studs_y, plate_z) ==
    LET dims == str(studs_x) \o "x" \o str(studs_y) \o "x" \o str(plate_z) IN
    IF plate_z = 1 THEN "plate_" \o dims
    ELSE IF plate_z = 2 THEN "plick_" \o dims
    ELSE IF plate_z % 3 = 0 THEN
        IF plate_z = 6 THEN "doublebrick_" \o dims
        ELSE IF plate_z = 9 THEN "triplebrick_" \o dims
        ELSE IF plate_z = 12 THEN "quadruplebrick_" \o dims
        ELSE "xbrick_" \o dims
    ELSE "xplate_" \o dims

name_a_brick(studs_x, studs_y, plate_z) ==
    LET dims == str(studs_x) \o "x" \o str(studs_y) \o "x" \o str(plate_z) IN
    IF plate_z = 1 THEN "plate_" \o dims
    ELSE IF plate_z = 2 THEN "plick_" \o dims
    ELSE IF plate_z % 3 = 0 THEN
        IF plate_z = 3 THEN "brick_" \o dims
        ELSE IF plate_z = 6 THEN "doublebrick_" \o dims
        ELSE IF plate_z = 9 THEN "triplebrick_" \o dims
        ELSE IF plate_z = 12 THEN "quadruplebrick_" \o dims
        ELSE "xbrick_" \o dims
    ELSE "xplate_" \o dims

name_a_bigbrick(studs_x, studs_y, plate_z) ==
    LET dims == str(studs_x) \o "x" \o str(studs_y) \o "x" \o str(plate_z) IN
    IF plate_z = 1 THEN "plate_" \o dims
    ELSE IF plate_z = 2 THEN "plick_" \o dims
    ELSE IF plate_z % 3 = 0 THEN
        IF plate_z = 3 THEN "brick_" \o dims
        ELSE IF plate_z = 6 THEN "doublebrick_" \o dims
        ELSE IF plate_z = 9 THEN "triplebrick_" \o dims
        ELSE IF plate_z = 12 THEN "quadruplebrick_" \o dims
        ELSE "xbrick_" \o dims
    ELSE "xplate_" \o dims

name_a_rectangular_brick(side_x, side_y, hole_x, hole_y, plate_z) ==
    LET side_name == str(side_x) \o "x" \o str(side_y)
        hole_name == "_hole_" \o str(hole_x) \o "_by_" \o str(hole_y)
        tail == side_name \o hole_name \o "x" \o str(plate_z) IN
    IF plate_z = 1 THEN "rectangular_plate_" \o tail
    ELSE IF plate_z = 2 THEN "rectangular_plick_" \o tail
    ELSE IF plate_z % 3 = 0 THEN
        IF plate_z = 3 THEN "rectangular_brick_" \o tail
        ELSE IF plate_z = 6 THEN "rectangular_doublebrick_" \o tail
        ELSE IF plate_z = 9 THEN "rectangular_triplebrick_" \o tail
        ELSE IF plate_z = 12 THEN "rectangular_quadruplebrick_" \o tail
        ELSE "rectangular_xbrick_" \o tail
    ELSE "rectangular_xplate_" \o tail

name_a_holed_brick(side_x, side_y, hole_x, hole_y, plate_z) ==
    LET side_name == str(side_x) \o "x" \o str(side_y)
        hole_name == "__hole_" \o str(hole_x) \o "x" \o str(hole_y)
        height_name == "__height_" \o str(plate_z)
        tail == side_name \o hole_name \o height_name IN
    IF plate_z = 1 THEN "holedplate_" \o tail
    ELSE IF plate_z = 2 THEN "holedplick_" \o tail
    ELSE IF plate_z % 3 = 0 THEN
        IF plate_z = 3 THEN "holedbrick_" \o tail
        ELSE IF plate_z = 6 THEN "holeddoublebrick_" \o tail
        ELSE IF plate_z = 9 THEN "holedtriplebrick_" \o tail
        ELSE IF plate_z = 12 THEN "holedquadruplebrick_" \o tail
        ELSE "holedxbrick_" \o tail
    ELSE "holedxplate_" \o tail

name_a_corner_brick_no_separator(left_length, left_width, bottom_length, bottom_height, plate_z) ==
    LET left_name == "_left_" \o str(left_length) \o str(left_width)
        bottom_name == "_bottom_" \o str(bottom_length) \o "x" \o str(bottom_height)
        height_name == "_height_" \o str(plate_z) IN
    "cornerbrick" \o left_name \o bottom_name \o height_name

name_a_corner_brick(left_length, left_width, bottom_length, bottom_height, plate_z) ==
    LET left_name == "_left_" \o str(left_length) \o "x" \o str(left_width)
        bottom_name == "_bottom_" \o str(bottom_length) \o "x" \o str(bottom_height)
        height_name == "_height_" \o str(plate_z) IN
    "cornerbrick" \o left_name \o bottom_name \o height_name

name_a_slope_brick(studs_x, studs_y, plate_z, studs_t) ==
    "slope_" \o str(studs_x) \o "x" \o str(studs_y) \o "x" \o str(plate_z)
             \o "_top_" \o str(studs_t)

name_a_pocket(studs_x, studs_y, inner_height, floor_height, inner_studs) ==
    LET floor_name == "_floor_" \o str(floor_height)
        inner_name == "_inner_" \o str(inner_height)
        size_name == "_size_" \o str(studs_x) \o "x" \o str(studs_y)
        inner_name2 == IF inner_studs THEN inner_name \o "_inner_studs_" ELSE inner_name IN
    "pocket_" \o size_name \o inner_name2 \o floor_name

(***************************************************************************)
(* Dictionaries.                                                           *)
(***************************************************************************)
dict_set_forgetting(d, key, value) == key :> value

dict_set_skipped(d, key, value) == d

\* d[key] = value
dict_set(d, key, value) == (key :> value) @@ d

EmptyDict == [k \in {} |-> <<>>]

(***************************************************************************)
(* Document objects.  A box is a Part::Box with its Length, Width, Height  *)
(* and Placement; a cut or fuse is a Part::Cut or Part::Fuse of a Base     *)
(* and a Tool.                                                             *)
(***************************************************************************)
Vector(x, y, z) == <<x, y, z>>

make_box(name, x, y, z) ==
    [kind |-> "box", name |-> name, size |-> <<x, y, z>>, at |-> Vector(0, 0, 0)]

placed(obj, v) == [obj EXCEPT !.at = v]

Cut(name, base, tool) == [kind |-> "cut", name |-> name, base |-> base, tool |-> tool]

Fuse(name, base, tool) == [kind |-> "fuse", name |-> name, base |-> base, tool |-> tool]

\* range(int(n)): the indices 0 .. n-1, none when n <= 0
RECURSIVE range_from(_, _)
range_from(k, n) == IF k >= n THEN <<>> ELSE <<k>> \o range_from(k + 1, n)

range(n) == range_from(0, n)

\* for a in range(na): for b in range(nb): the pairs <<a, b>> in loop order
RECURSIVE loop_from(_, _, _)
loop_from(a, na, nb) ==
    IF a >= na THEN <<>>
    ELSE [k \in 1..Len(range(nb)) |-> <<a, range(nb)[k]>>] \o loop_from(a + 1, na, nb)

nested_loop(na, nb) == loop_from(0, na, nb)

(***************************************************************************)
(* Hulls.                                                                  *)
(***************************************************************************)
create_brick_hull_wall_for_top(bname) ==
    LET x == bricks[bname][1]
        y == bricks[bname][2]
        z == bricks[bname][3]
        outer_width == convert_studs_to_mm(x)
        outer_length == convert_studs_to_mm(y)
        outer_height == z * plate_height_mm
        outer_prism == make_box("outer_prism", outer_width, outer_length, outer_height)
        inner_width == outer_width - (2 * wall_thickness_mm)
        inner_length == outer_length - (2 * wall_thickness_mm)
        inner_height == outer_height - wall_thickness_mm
        inner_prism == placed(make_box("inner_prism", inner_width, inner_length, inner_height),
                              Vector(wall_thickness_mm, wall_thickness_mm, 0))
    IN  Cut(bname \o "_hull", outer_prism, inner_prism)

\* regular_brick.py; slope_brick.py holds the same function
create_brick_hull(bname) ==
    LET x == bricks[bname][1]
        y == bricks[bname][2]
        z == bricks[bname][3]
        outer_width == convert_studs_to_mm(x)
        outer_length == convert_studs_to_mm(y)
        outer_height == z * plate_height_mm
        outer_prism == make_box("outer_prism", outer_width, outer_length, outer_height)
        inner_width == outer_width - (2 * wall_thickness_mm)
        inner_length == outer_length - (2 * wall_thickness_mm)
        inner_height == outer_height - top_thickness_mm
        inner_prism == placed(make_box("inner_prism", inner_width, inner_length, inner_height),
                              Vector(wall_thickness_mm, wall_thickness_mm, 0))
    IN  Cut(bname \o "_hull", outer_prism, inner_prism)

slope_create_brick_hull(bname) ==
    LET x == bricks[bname][1]
        y == bricks[bname][2]
        z == bricks[bname][3]
        outer_width == convert_studs_to_mm(x)
        outer_length == convert_studs_to_mm(y)
        outer_height == z * plate_height_mm
        outer_prism == make_box("outer_prism", outer_width, outer_length, outer_height)
        inner_width == outer_width - (2 * wall_thickness_mm)
        inner_length == outer_length - (2 * wall_thickness_mm)
        inner_height == outer_height - top_thickness_mm
        inner_prism == placed(make_box("inner_prism", inner_width, inner_length, inner_height),
                              Vector(wall_thickness_mm, wall_thickness_mm, 0))
    IN  Cut(bname \o "_hull", outer_prism, inner_prism)

bigbrick_create_brick_hull(bname) ==
    LET x == bigbricks[bname][1]
        y == bigbricks[bname][2]
        z == bigbricks[bname][3]
        outer_width == bigbrick_convert_studs_to_mm(x)
        outer_length == bigbrick_convert_studs_to_mm(y)
        outer_height == z * bigplate_height_mm
        outer_prism == make_box("outer_prism", outer_width, outer_length, outer_height)
        inner_width == outer_width - (2 * bigwall_thickness_mm)
        inner_length == outer_length - (2 * bigwall_thickness_mm)
        inner_height == outer_height - bigtop_thickness_mm
        inner_prism == placed(make_box("inner_prism", inner_width, inner_length, inner_height),
                              Vector(bigwall_thickness_mm, bigwall_thickness_mm, 0))
    IN  Cut(bname \o "_hull", outer_prism, inner_prism)

\* the hull shared by the two holed families; they differ in the hole's margins
holed_hull(bname, t, hole_margin, inner_hole_margin) ==
    LET side_x == t[1]
        side_y == t[2]
        hole_x == t[3]
        hole_y == t[4]
        z == t[5]
        studs_x == hole_x + (side_x * 2)
        studs_y == hole_y + (side_y * 2)
        outer_width == convert_studs_to_mm(studs_x)
        outer_length == convert_studs_to_mm(studs_y)
        outer_height == z * plate_height_mm
        outer_prism == make_box("outer_prism", outer_width, outer_length, outer_height)
        inner_width == outer_width - (2 * wall_thickness_mm)
        inner_length == outer_length - (2 * wall_thickness_mm)
        inner_height == outer_height - top_thickness_mm
        inner_prism == placed(make_box("inner_prism", inner_width, inner_length, inner_height),
                              Vector(wall_thickness_mm, wall_thickness_mm, 0))
        solid == Cut(bname \o "_solid", outer_prism, inner_prism)
        outer_hole_width == convert_studs_to_mm(hole_x)
        outer_hole_length == convert_studs_to_mm(hole_y)
        offset_x == convert_studs_to_mm(side_x) + hole_margin
        offset_y == convert_studs_to_mm(side_y) + hole_margin
        outer_hole == placed(make_box("outer_hole", outer_hole_width, outer_hole_length, outer_height),
                             Vector(offset_x, offset_y, 0))
        holed_solid == Cut(bname \o "_holed_solid", solid, outer_hole)
        inner_hole_width == outer_hole_width - (2 * wall_thickness_mm)
        inner_hole_length == outer_hole_length - (2 * wall_thickness_mm)
        inner_hole_position == Vector(offset_x + wall_thickness_mm + inner_hole_margin,
                                      offset_y + wall_thickness_mm + inner_hole_margin, 0)
        inner_hole == placed(make_box("inner_hole", inner_hole_width, inner_hole_length, outer_height),
                             inner_hole_position)
        hole_walls == Cut(bname \o "_holewalls", outer_hole, inner_hole)
    IN  Fuse(bname \o "_hull", holed_solid, hole_walls)

create_rectangular_brick_hull(bname) ==
    holed_hull(bname, rectangular_bricks[bname], 0, 0)

create_holed_brick_hull_no_margin(bname) ==
    holed_hull(bname, holed_bricks[bname], 0, gap_mm)

create_holed_brick_hull(bname) ==
    holed_hull(bname, holed_bricks[bname], gap_mm, gap_mm)

create_corner_hull(bname) ==
    LET left_l == bricks[bname][1]
        left_w == bricks[bname][2]
        bottom_l == bricks[bname][3]
        bottom_h == bricks[bname][4]
        z == bricks[bname][5]
        height == z * plate_height_mm
        outer_left_w == convert_studs_to_mm(left_w)
        outer_left_l == convert_studs_to_mm(left_l)
        outer_left_prism == make_box("outer_left_prism", outer_left_w, outer_left_l, height)
        outer_bottom_l == convert_studs_to_mm(bottom_l + left_w)
        outer_bottom_h == convert_studs_to_mm(bottom_h)
        outer_bottom_prism == make_box("outer_bottom_prism", outer_bottom_l, outer_bottom_h, height)
        outer_corner == Fuse(bname \o "_outer", outer_left_prism, outer_bottom_prism)
        inner_height == height - top_thickness_mm
        inner_left_w == outer_left_w - (2 * wall_thickness_mm)
        inner_left_l == outer_left_l - (2 * wall_thickness_mm)
        inner_bottom_l == outer_bottom_l - (2 * wall_thickness_mm)
        inner_bottom_h == outer_bottom_h - (2 * wall_thickness_mm)
        inner_left_prism ==
            placed(make_box("inner_left_prism", inner_left_w, inner_left_l, inner_height),
                   Vector(wall_thickness_mm, wall_thickness_mm, 0))
        inner_bottom_prism ==
            placed(make_box("inner_bottom_prism", inner_bottom_l, inner_bottom_h, inner_height),
                   Vector(wall_thickness_mm, wall_thickness_mm, 0))
        inner_corner == Fuse(bname \o "_inner", inner_left_prism, inner_bottom_prism)
    IN  Cut(bname \o "_hull", outer_corner, inner_corner)

create_pocket_hull_wall_thickness(tuple) ==
    LET pocket_name == tuple[1]
        x == tuple[2]
        y == tuple[3]
        inner_height == tuple[4] * plate_height_mm
        floor_height == tuple[5] * plate_height_mm
        outer_height == floor_height + inner_height
        outer_width == convert_studs_to_mm(x)
        outer_length == convert_studs_to_mm(y)
        outer_prism == make_box("outer_prism", outer_width, outer_length, outer_height)
        inner_width == convert_studs_to_mm(x - 2)
        inner_length == convert_studs_to_mm(y - 2)
        inner_prism == placed(make_box("inner_prism", inner_width, inner_length, inner_height),
                              Vector(wall_thickness_mm, wall_thickness_mm, floor_height))
    IN  Cut(pocket_name \o "_hull", outer_prism, inner_prism)

create_pocket_hull(tuple) ==
    LET pocket_name == tuple[1]
        x == tuple[2]
        y == tuple[3]
        inner_height == tuple[4] * plate_height_mm
        floor_height == tuple[5] * plate_height_mm
        outer_height == floor_height + inner_height
        outer_width == convert_studs_to_mm(x)
        outer_length == convert_studs_to_mm(y)
        outer_prism == make_box("outer_prism", outer_width, outer_length, outer_height)
        inner_width == convert_studs_to_mm(x - 2)
        inner_length == convert_studs_to_mm(y - 2)
        pocket_wall_mm == brick_width_mm + gap_mm
        inner_prism == placed(make_box("inner_prism", inner_width, inner_length, inner_height),
                              Vector(pocket_wall_mm, pocket_wall_mm, floor_height))
    IN  Cut(pocket_name \o "_hull", outer_prism, inner_prism)

(***************************************************************************)
(* Templates and feature placement.                                        *)
(***************************************************************************)
make_stud(name) ==
    [kind |-> "cylinder", name |-> name, radius |-> stud_radius_mm, height |-> stud_height_mm]

make_studring_template(name) ==
    [kind |-> "studring", name |-> name, radius |-> studring_radius_mm,
     height |-> studring_height_mm, wall |-> studring_wall_mm]

\* the ring template every add_*_rings of the small scripts builds first
make_ring_template(height) ==
    [kind |-> "cut", name |-> "ring_template",
     base |-> [kind |-> "cylinder", name |-> "outer_cylinder",
               radius |-> ring_radius_outer_mm, height |-> height - top_thickness_mm],
     tool |-> [kind |-> "cylinder", name |-> "inner_cylinder",
               radius |-> ring_radius_inner_mm, height |-> height - top_thickness_mm]]

bigbrick_make_ring_template(height) ==
    [kind |-> "cut", name |-> "ring_template",
     base |-> [kind |-> "cylinder", name |-> "outer_cylinder",
               radius |-> big_ring_radius_outer_mm, height |-> height - bigtop_thickness_mm],
     tool |-> [kind |-> "cylinder", name |-> "inner_cylinder",
               radius |-> big_ring_radius_inner_mm, height |-> height - bigtop_thickness_mm]]

stud_copy_without_gap(bname, i, j, steps_x, steps_y, height) ==
    LET xpos == (steps_x * stud_center_spacing_mm) - (stud_center_spacing_mm \div 2)
        ypos == (steps_y * stud_center_spacing_mm) - (stud_center_spacing_mm \div 2)
    IN  [kind |-> "stud", label |-> "stud_" \o bname \o "_" \o str(i) \o "_" \o str(j),
         i |-> i, j |-> j, shape |-> make_stud("stud_template"), at |-> Vector(xpos, ypos, height)]

\* a copy of the stud template, labelled and placed (small scripts)
stud_copy(bname, i, j, steps_x, steps_y, height) ==
    LET xpos == (steps_x * stud_center_spacing_mm) - (stud_center_spacing_mm \div 2) - (gap_mm \div 2)
        ypos == (steps_y * stud_center_spacing_mm) - (stud_center_spacing_mm \div 2) - (gap_mm \div 2)
    IN  [kind |-> "stud", label |-> "stud_" \o bname \o "_" \o str(i) \o "_" \o str(j),
         i |-> i, j |-> j, shape |-> make_stud("stud_template"), at |-> Vector(xpos, ypos, height)]

ring_copy_without_half_gap(bname, i, j, a, b, template) ==
    LET xpos == (brick_width_mm + gap_mm) * (a + 1)
        ypos == (brick_width_mm + gap_mm) * (b + 1)
    IN  [kind |-> "ring", label |-> "ring_" \o bname \o str(i) \o "_" \o str(j),
         i |-> i, j |-> j, shape |-> template, at |-> Vector(xpos, ypos, 0)]

\* a copy of the ring template, labelled and placed (small scripts);
\* a is the index that gives xpos, b the index that gives ypos
ring_copy(bname, i, j, a, b, template) ==
    LET xpos == ((brick_width_mm + gap_mm) * (a + 1)) - (gap_mm \div 2)
        ypos == ((brick_width_mm + gap_mm) * (b + 1)) - (gap_mm \div 2)
    IN  [kind |-> "ring", label |-> "ring_" \o bname \o str(i) \o "_" \o str(j),
         i |-> i, j |-> j, shape |-> template, at |-> Vector(xpos, ypos, 0)]

studs_on(bname, cells, height) ==
    [k \in 1..Len(cells) |->
        stud_copy(bname, cells[k][1], cells[k][2], cells[k][1] + 1, cells[k][2] + 1, height)]

rings_on(bname, cells, template) ==
    [k \in 1..Len(cells) |->
        ring_copy(bname, cells[k][1], cells[k][2], cells[k][1], cells[k][2], template)]

\* regular_brick.py; slope_brick.py holds the same function
add_brick_studs(bname) ==
    LET x == bricks[bname][1]
        y == bricks[bname][2]
        z == bricks[bname][3]
        height == z * plate_height_mm
    IN  studs_on(bname, nested_loop(x, y), height)

slope_add_brick_studs(bname) ==
    LET x == bricks[bname][1]
        y == bricks[bname][2]
        z == bricks[bname][3]
        height == z * plate_height_mm
    IN  studs_on(bname, nested_loop(x, y), height)

add_brick_rings_per_stud(bname) ==
    LET x == bricks[bname][1]
        y == bricks[bname][2]
        z == bricks[bname][3]
        height == z * plate_height_mm
        template == make_ring_template(height)
        cells == nested_loop(x, y)
    IN  [k \in 1..Len(cells) |->
            ring_copy(bname, cells[k][2], cells[k][1], cells[k][1], cells[k][2], template)]

\* regular_brick.py: the outer loop variable is j (over x - 1), the inner i
add_brick_rings(bname) ==
    LET x == bricks[bname][1]
        y == bricks[bname][2]
        z == bricks[bname][3]
        height == z * plate_height_mm
        template == make_ring_template(height)
        cells == nested_loop(x - 1, y - 1)
    IN  [k \in 1..Len(cells) |->
            ring_copy(bname, cells[k][2], cells[k][1], cells[k][1], cells[k][2], template)]

slope_add_brick_rings(bname) ==
    LET x == bricks[bname][1]
        y == bricks[bname][2]
        z == bricks[bname][3]
        height == z * plate_height_mm
    IN  rings_on(bname, nested_loop(x - 1, y - 1), make_ring_template(height))

bigbrick_add_brick_studs(bname) ==
    LET x == bigbricks[bname][1]
        y == bigbricks[bname][2]
        z == bigbricks[bname][3]
        height == z * bigplate_height_mm
        cells == nested_loop(x, y)
        pos(n) == ((n + 1) * studring_center_spacing_mm)
                    - (studring_center_spacing_mm \div 2) - (gap_mm \div 2)
    IN  [k \in 1..Len(cells) |->
            [kind |-> "stud",
             label |-> "stud_" \o bname \o "_" \o str(cells[k][1]) \o "_" \o str(cells[k][2]),
             i |-> cells[k][1], j |-> cells[k][2],
             shape |-> make_studring_template("studring_template"),
             at |-> Vector(pos(cells[k][1]), pos(cells[k][2]), height)]]

bigbrick_add_brick_cones(bname) ==
    LET x == bigbricks[bname][1]
        y == bigbricks[bname][2]
        z == bigbricks[bname][3]
        height == (z * bigplate_height_mm) - cone_height_mm - bigtop_thickness_mm
        cells == nested_loop(x - 1, y - 1)
        pos(n) == ((bigbrick_width_mm + gap_mm) * (n + 1)) - (gap_mm \div 2)
    IN  [k \in 1..Len(cells) |->
            [kind |-> "cone",
             label |-> "cone_" \o bname \o "_" \o str(cells[k][1]) \o "_" \o str(cells[k][2]),
             i |-> cells[k][1], j |-> cells[k][2],
             at |-> Vector(pos(cells[k][1]), pos(cells[k][2]), height)]]

bigbrick_add_brick_rings(bname) ==
    LET x == bigbricks[bname][1]
        y == bigbricks[bname][2]
        z == bigbricks[bname][3]
        height == z * bigplate_height_mm
        template == bigbrick_make_ring_template(height)
        cells == nested_loop(x - 1, y - 1)
        pos(n) == ((bigbrick_width_mm + gap_mm) * (n + 1)) - (gap_mm \div 2)
    IN  [k \in 1..Len(cells) |->
            [kind |-> "ring",
             label |-> "ring_" \o bname \o str(cells[k][1]) \o "_" \o str(cells[k][2]),
             i |-> cells[k][1], j |-> cells[k][2], shape |-> template,
             at |-> Vector(pos(cells[k][1]), pos(cells[k][2]), 0)]]

holed_studs_everywhere(bname, t) ==
    LET studs_x == t[3] + (t[1] * 2)
        studs_y == t[4] + (t[2] * 2)
        height == t[5] * plate_height_mm
    IN  studs_on(bname, nested_loop(studs_x, studs_y), height)

\* the studs shared by the two holed families (the two functions are the same)
holed_studs(bname, t) ==
    LET side_x == t[1]
        side_y == t[2]
        hole_x == t[3]
        hole_y == t[4]
        z == t[5]
        studs_x == hole_x + (side_x * 2)
        studs_y == hole_y + (side_y * 2)
        height == z * plate_height_mm
        keep(c) == LET i == c[1]
                       j == c[2]
                   IN  ((i < side_x) \/ (i >= (side_x + hole_x)))
                         \/ ((j < side_y) \/ (j >= (side_y + hole_y)))
    IN  studs_on(bname, SelectSeq(nested_loop(studs_x, studs_y), keep), height)

holed_rings_unshifted(bname, t) ==
    LET side_x == t[1]
        side_y == t[2]
        hole_x == t[3]
        hole_y == t[4]
        z == t[5]
        studs_x == hole_x + (side_x * 2)
        studs_y == hole_y + (side_y * 2)
        height == z * plate_height_mm
        keep(c) == LET i == c[1]
                       j == c[2]
                   IN  ((i < side_x) \/ (i >= (side_x + hole_x)))
                         \/ ((j < side_y) \/ (j >= (side_y + hole_y)))
    IN  rings_on(bname, SelectSeq(nested_loop(studs_x - 1, studs_y - 1), keep),
                 make_ring_template(height))

holed_rings(bname, t) ==
    LET side_x == t[1]
        side_y == t[2]
        hole_x == t[3]
        hole_y == t[4]
        z == t[5]
        studs_x == hole_x + (side_x * 2)
        studs_y == hole_y + (side_y * 2)
        height == z * plate_height_mm
        keep(c) == LET i == c[1]
                       j == c[2]
                   IN  ((i < (side_x - 1)) \/ (i >= (side_x + hole_x)))
                         \/ ((j < (side_y - 1)) \/ (j >= (side_y + hole_y)))
    IN  rings_on(bname, SelectSeq(nested_loop(studs_x - 1, studs_y - 1), keep),
                 make_ring_template(height))

add_rectangular_brick_studs(bname) == holed_studs(bname, rectangular_bricks[bname])

add_rectangular_brick_rings(bname) == holed_rings(bname, rectangular_bricks[bname])

add_holed_brick_studs(bname) == holed_studs(bname, holed_bricks[bname])

add_holed_brick_rings(bname) == holed_rings(bname, holed_bricks[bname])

add_corner_brick_studs(bname) ==
    LET left_l == bricks[bname][1]
        left_w == bricks[bname][2]
        bottom_l == bricks[bname][3]
        bottom_h == bricks[bname][4]
        z == bricks[bname][5]
        height == z * plate_height_mm
        keep(c) == (c[1] < left_w) \/ (c[2] < bottom_h)
    IN  studs_on(bname, SelectSeq(nested_loop(bottom_l + left_w, left_l), keep), height)

add_corner_brick_rings_unshifted(bname) ==
    LET left_l == bricks[bname][1]
        left_w == bricks[bname][2]
        bottom_l == bricks[bname][3]
        bottom_h == bricks[bname][4]
        z == bricks[bname][5]
        height == z * plate_height_mm
        keep(c) == (c[1] < left_w) \/ (c[2] < bottom_h)
    IN  rings_on(bname, SelectSeq(nested_loop(bottom_l + left_w - 1, left_l - 1), keep),
                 make_ring_template(height))

add_corner_brick_rings(bname) ==
    LET left_l == bricks[bname][1]
        left_w == bricks[bname][2]
        bottom_l == bricks[bname][3]
        bottom_h == bricks[bname][4]
        z == bricks[bname][5]
        height == z * plate_height_mm
        keep(c) == (c[1] < (left_w - 1)) \/ (c[2] < (bottom_h - 1))
    IN  rings_on(bname, SelectSeq(nested_loop(bottom_l + left_w - 1, left_l - 1), keep),
                 make_ring_template(height))

add_pocket_top_studs(tuple) ==
    LET pocket_name == tuple[1]
        studs_x == tuple[2]
        studs_y == tuple[3]
        hole_x == studs_x - 2
        hole_y == studs_y - 2
        z == tuple[4] + tuple[5]
        height == z * plate_height_mm
        keep(c) == ((c[1] < 1) \/ (c[1] > hole_x)) \/ ((c[2] < 1) \/ (c[2] > hole_y))
    IN  studs_on(pocket_name, SelectSeq(nested_loop(studs_x, studs_y), keep), height)

add_pocket_floor_studs_unshifted(tuple) ==
    LET pocket_name == tuple[1]
        x == tuple[2] - 2
        y == tuple[3] - 2
        z == tuple[5]
        height == z * plate_height_mm
        cells == nested_loop(x, y)
    IN  [k \in 1..Len(cells) |->
            stud_copy(pocket_name, cells[k][1], cells[k][2],
                      cells[k][1] + 1, cells[k][2] + 1, height)]

add_pocket_floor_studs(tuple) ==
    LET pocket_name == tuple[1]
        x == tuple[2] - 2
        y == tuple[3] - 2
        z == tuple[5]
        height == z * plate_height_mm
        cells == nested_loop(x, y)
    IN  [k \in 1..Len(cells) |->
            stud_copy(pocket_name, cells[k][1], cells[k][2],
                      cells[k][1] + 2, cells[k][2] + 2, height)]

(***************************************************************************)
(* The slope's cut-out and roof: a four-point profile padded over the      *)
(* brick's length.                                                         *)
(***************************************************************************)
create_slope_cutout_half_pitch(bname) ==
    LET width_bottom == convert_studs_to_mm(bricks[bname][1])
        length == convert_studs_to_mm(bricks[bname][2])
        height == bricks[bname][3] * plate_height_mm
        width_topstuds == convert_studs_to_mm(bricks[bname][4]) + (stud_center_spacing_mm \div 2)
    IN  [kind |-> "pad", label |-> "Pad_" \o bname, length |-> length,
         points |-> << Vector(width_bottom, slope_start_height_mm, 0),
                       Vector(width_bottom, height + stud_height_mm, 0),
                       Vector(width_topstuds, height + stud_height_mm, 0),
                       Vector(width_topstuds, height, 0) >>]

create_slope_cutout(bname) ==
    LET width_bottom == convert_studs_to_mm(bricks[bname][1])
        length == convert_studs_to_mm(bricks[bname][2])
        height == bricks[bname][3] * plate_height_mm
        width_topstuds == convert_studs_to_mm(bricks[bname][4])
    IN  [kind |-> "pad", label |-> "Pad_" \o bname, length |-> length,
         points |-> << Vector(width_bottom, slope_start_height_mm, 0),
                       Vector(width_bottom, height + stud_height_mm, 0),
                       Vector(width_topstuds, height + stud_height_mm, 0),
                       Vector(width_topstuds, height, 0) >>]

create_slope_roof(bname) ==
    LET width_bottom == convert_studs_to_mm(bricks[bname][1])
        length == convert_studs_to_mm(bricks[bname][2])
        height == bricks[bname][3] * plate_height_mm
        width_topstuds == convert_studs_to_mm(bricks[bname][4])
    IN  [kind |-> "pad", label |-> "Pad_" \o bname \o "roof", length |-> length,
         points |-> << Vector(width_bottom, slope_start_height_mm, 0),
                       Vector(width_topstuds, height, 0),
                       Vector(width_topstuds, height - roof_thickness_mm, 0),
                       Vector(width_bottom, slope_start_height_mm - roof_thickness_mm, 0) >>]

(***************************************************************************)
(* The run of a script.                                                    *)
(***************************************************************************)
Scripts == {"regular_brick", "regular_bigbrick", "holed_brick",
            "corner_brick", "slope_brick", "pocket_brick"}

export_directory ==
    CASE script = "regular_bigbrick" -> "/home/paul/FreeCAD_generated/"
      [] script = "pocket_brick" -> "/home/paul/FreeCAD/generated_pockets/"
      [] OTHER -> "/home/paul/FreeCAD/generated_bricks/"

\* the templates the module-level code creates before the first call
StudTemplates ==
    IF script = "regular_bigbrick"
    THEN {"studring_template", "studring", "outer_studring_template",
          "inner_studring_template", "cone_template", "Loft", "Sketch_bc", "Sketch_tc"}
    ELSE {"stud_template"}

RingTemplateObjects == {"ring_template", "outer_cylinder", "inner_cylinder"}

\* The driver section of a script is a list of calls.  The model explores
\* three shapes of it: one call over the wide parameter ranges ("single"),
\* up to MaxCalls calls over narrow ones ("batch"), or up to MaxCalls calls
\* of bricks that are 1 or MaxWideStuds studs wide and long ("wide").
CallLimit == IF menu = "single" THEN 1 ELSE MaxCalls
StudCounts ==
    CASE menu = "single" -> (0 - 1)..MaxStuds
      [] menu = "batch" -> {0, 1, 2}
      [] OTHER -> {1, MaxWideStuds}
PlateCounts == IF menu = "single" THEN 0..MaxPlates ELSE {3}
SideCounts ==
    CASE menu = "single" -> 0..MaxSide
      [] menu = "batch" -> {0, 1}
      [] OTHER -> {1}
HoleCounts == IF menu = "single" THEN 0..MaxSide ELSE {1}
ArmCounts ==
    CASE menu = "single" -> 0..(MaxSide + 1)
      [] menu = "batch" -> {0, 1}
      [] OTHER -> {1}
TopCounts == IF menu = "single" THEN 0..MaxStuds ELSE {1}
HeightCounts == IF menu = "single" THEN 0..MaxPlates ELSE {1}

dicts == <<bricks, rectangular_bricks, holed_bricks, bigbricks>>
\* what no generation function writes
fixed == <<script, menu, series, probe, result>>

Init ==
    /\ script \in Scripts
    /\ menu \in {"single", "batch", "wide"}
    /\ series = NoSeries
    /\ ncalls = 0
    /\ pc = "ready"
    /\ call = NoCall
    /\ brick_name = ""
    /\ pocket_tuple = <<>>
    /\ bricks = EmptyDict
    /\ rectangular_bricks = EmptyDict
    /\ holed_bricks = EmptyDict
    /\ bigbricks = EmptyDict
    /\ offset = 0
    /\ compound_list = <<>>
    /\ ring_template = NoObject
    /\ finished = NoObject
    /\ doc = StudTemplates
    /\ exported = {}
    /\ scene = <<>>
    /\ probe = NoProbe
    /\ result = NoResult

Enter_without_return(fn, args, ok) ==
    /\ pc = "ready"
    /\ ~series.active
    /\ ncalls < CallLimit
    /\ ncalls' = ncalls + 1
    /\ call' = [fn |-> fn, args |-> args, accepted |-> TRUE]
    /\ pc' = "name"
    /\ UNCHANGED <<brick_name, pocket_tuple, dicts, offset, compound_list,
                   ring_template, finished, doc, exported, scene, fixed>>

\* a generation call is made: the guard of the function decides whether
\* its body runs (ok) or it prints an error and returns
Enter(fn, args, ok) ==
    /\ pc = "ready"
    /\ ~series.active
    /\ ncalls < CallLimit
    /\ ncalls' = ncalls + 1
    /\ call' = [fn |-> fn, args |-> args, accepted |-> ok]
    /\ pc' = IF ok THEN "name" ELSE "ready"
    /\ UNCHANGED <<brick_name, pocket_tuple, dicts, offset, compound_list,
                   ring_template, finished, doc, exported, scene, fixed>>

At(fn, p) == pc = p /\ call.fn = fn

\* compound_list.append(hull) / compound_list += features
Collect(objects, next) ==
    /\ compound_list' = compound_list \o objects
    /\ pc' = next
    /\ UNCHANGED <<ncalls, call, brick_name, pocket_tuple, dicts, offset,
                   finished, exported, scene, fixed>>

Place_without_advance(obj, advance, next) ==
    /\ finished' = obj
    /\ offset' = offset
    /\ doc' = doc \cup {brick_name}
    /\ scene' = Append(scene, [name |-> brick_name, fn |-> call.fn,
                               args |-> call.args, at |-> obj.at])
    /\ pc' = next
    /\ UNCHANGED <<ncalls, call, brick_name, pocket_tuple, dicts, compound_list,
                   ring_template, exported, fixed>>

\* obj.Placement = ...; offset += advance
Place(obj, advance, next) ==
    /\ finished' = obj
    /\ offset' = offset + advance
    /\ doc' = doc \cup {brick_name}
    /\ scene' = Append(scene, [name |-> brick_name, fn |-> call.fn,
                               args |-> call.args, at |-> obj.at])
    /\ pc' = next
    /\ UNCHANGED <<ncalls, call, brick_name, pocket_tuple, dicts, compound_list,
                   ring_template, exported, fixed>>

CleanUp_skipped(next) ==
    /\ pc' = next
    /\ UNCHANGED <<ncalls, call, brick_name, pocket_tuple, dicts, offset,
                   compound_list, finished, exported, scene, fixed, doc, ring_template>>

\* doc.removeObject of the ring template and its two cylinders
CleanUp(next) ==
    /\ doc' = doc \ RingTemplateObjects
    /\ ring_template' = NoObject
    /\ pc' = next
    /\ UNCHANGED <<ncalls, call, brick_name, pocket_tuple, dicts, offset,
                   compound_list, finished, exported, scene, fixed>>

Export_mesh_label ==
    /\ exported' = exported \cup {export_directory \o "Mesh_" \o brick_name \o ".stl"}
    /\ pc' = "ready"
    /\ UNCHANGED <<ncalls, call, brick_name, pocket_tuple, dicts, offset,
                   compound_list, ring_template, finished, doc, scene, fixed>>

\* Mesh.export(export, export_directory + brick_name + ".stl")
Export ==
    /\ exported' = exported \cup {export_directory \o brick_name \o ".stl"}
    /\ pc' = "ready"
    /\ UNCHANGED <<ncalls, call, brick_name, pocket_tuple, dicts, offset,
                   compound_list, ring_template, finished, doc, scene, fixed>>

Compound(name, links, at) ==
    [kind |-> "compound", name |-> name, links |-> links, at |-> at]

make_brick ==
    \/ /\ script = "regular_brick"
       /\ pc = "ready"
       /\ ncalls < CallLimit
       /\ \E studs_x, studs_y \in StudCounts, plate_z \in PlateCounts :
            Enter("make_brick", <<studs_x, studs_y, plate_z>>, ~(studs_y < studs_x))
    \/ /\ At("make_brick", "name")
       /\ brick_name' = name_a_brick(call.args[1], call.args[2], call.args[3])
       /\ bricks' = dict_set(bricks, brick_name', call.args)
       /\ compound_list' = <<>>
       /\ pc' = "hull"
       /\ UNCHANGED <<ncalls, call, pocket_tuple, rectangular_bricks, holed_bricks,
                      bigbricks, offset, ring_template, finished, doc, exported,
                      scene, fixed>>
    \/ /\ At("make_brick", "hull")
       /\ brick_name \in DOMAIN bricks
       /\ Collect(<<create_brick_hull(brick_name)>>, "studs")
       /\ doc' = doc \cup {"outer_prism", "inner_prism", brick_name \o "_hull"}
       /\ UNCHANGED ring_template
    \/ /\ At("make_brick", "studs")
       /\ "stud_template" \in doc
       /\ Collect(add_brick_studs(brick_name), "rings")
       /\ UNCHANGED <<doc, ring_template>>
    \/ /\ At("make_brick", "rings")
       /\ Collect(add_brick_rings(brick_name), "place")
       /\ ring_template' = make_ring_template(bricks[brick_name][3] * plate_height_mm)
       /\ doc' = doc \cup RingTemplateObjects
    \/ /\ At("make_brick", "place")
       /\ Place(Compound(brick_name, compound_list, Vector(brick_width_mm * offset, 0, 0)),
                call.args[1] + 1, "cleanup")
    \/ /\ At("make_brick", "cleanup")
       /\ CleanUp("export")
    \/ /\ At("make_brick", "export")
       /\ Export

make_rectangle_brick ==
    \/ /\ script = "regular_brick"
       /\ pc = "ready"
       /\ ncalls < CallLimit
       /\ \E hole_x, hole_y \in HoleCounts, side_x, side_y \in SideCounts,
          plate_z \in PlateCounts :
            Enter("make_rectangle_brick", <<hole_x, hole_y, side_x, side_y, plate_z>>, TRUE)
    \/ /\ At("make_rectangle_brick", "name")
       /\ brick_name' = name_a_rectangular_brick(call.args[3], call.args[4],
                                                 call.args[1], call.args[2], call.args[5])
       /\ rectangular_bricks' =
            dict_set(rectangular_bricks, brick_name',
                     <<call.args[3], call.args[4], call.args[1], call.args[2], call.args[5]>>)
       /\ compound_list' = <<>>
       /\ pc' = "hull"
       /\ UNCHANGED <<ncalls, call, pocket_tuple, bricks, holed_bricks, bigbricks,
                      offset, ring_template, finished, doc, exported, scene, fixed>>
    \/ /\ At("make_rectangle_brick", "hull")
       /\ brick_name \in DOMAIN rectangular_bricks
       /\ Collect(<<create_rectangular_brick_hull(brick_name)>>, "studs")
       /\ doc' = doc \cup {"outer_prism", "inner_prism", "outer_hole", "inner_hole",
                           brick_name \o "_solid", brick_name \o "_holed_solid",
                           brick_name \o "_holewalls", brick_name \o "_hull"}
       /\ UNCHANGED ring_template
    \/ /\ At("make_rectangle_brick", "studs")
       /\ "stud_template" \in doc
       /\ Collect(add_rectangular_brick_studs(brick_name), "rings")
       /\ UNCHANGED <<doc, ring_template>>
    \/ /\ At("make_rectangle_brick", "rings")
       /\ Collect(add_rectangular_brick_rings(brick_name), "place")
       /\ ring_template' =
            make_ring_template(rectangular_bricks[brick_name][5] * plate_height_mm)
       /\ doc' = doc \cup RingTemplateObjects
    \/ /\ At("make_rectangle_brick", "place")
       /\ Place(Compound(brick_name, compound_list, Vector(brick_width_mm * offset, 0, 0)),
                call.args[3] + call.args[3] + call.args[1] + 1, "cleanup")
    \/ /\ At("make_rectangle_brick", "cleanup")
       /\ CleanUp("export")
    \/ /\ At("make_rectangle_brick", "export")
       /\ Export

make_holed_brick ==
    \/ /\ script = "holed_brick"
       /\ pc = "ready"
       /\ ncalls < CallLimit
       /\ \E hole_x, hole_y \in HoleCounts, side_x, side_y \in SideCounts,
          plate_z \in PlateCounts :
            Enter("make_holed_brick", <<hole_x, hole_y, side_x, side_y, plate_z>>, TRUE)
    \/ /\ At("make_holed_brick", "name")
       /\ brick_name' = name_a_holed_brick(call.args[3], call.args[4],
                                           call.args[1], call.args[2], call.args[5])
       /\ holed_bricks' =
            dict_set(holed_bricks, brick_name',
                     <<call.args[3], call.args[4], call.args[1], call.args[2], call.args[5]>>)
       /\ compound_list' = <<>>
       /\ pc' = "hull"
       /\ UNCHANGED <<ncalls, call, pocket_tuple, bricks, rectangular_bricks, bigbricks,
                      offset, ring_template, finished, doc, exported, scene, fixed>>
    \/ /\ At("make_holed_brick", "hull")
       /\ brick_name \in DOMAIN holed_bricks
       /\ Collect(<<create_holed_brick_hull(brick_name)>>, "studs")
       /\ doc' = doc \cup {"outer_prism", "inner_prism", "outer_hole", "inner_hole",
                           brick_name \o "_solid", brick_name \o "_holed_solid",
                           brick_name \o "_holewalls", brick_name \o "_hull"}
       /\ UNCHANGED ring_template
    \/ /\ At("make_holed_brick", "studs")
       /\ "stud_template" \in doc
       /\ Collect(add_holed_brick_studs(brick_name), "rings")
       /\ UNCHANGED <<doc, ring_template>>
    \/ /\ At("make_holed_brick", "rings")
       /\ Collect(add_holed_brick_rings(brick_name), "place")
       /\ ring_template' = make_ring_template(holed_bricks[brick_name][5] * plate_height_mm)
       /\ doc' = doc \cup RingTemplateObjects
    \/ /\ At("make_holed_brick", "place")
       /\ Place(Compound(brick_name, compound_list, Vector(brick_width_mm * offset, 0, 0)),
                call.args[3] + call.args[3] + call.args[1] + 1, "cleanup")
    \/ /\ At("make_holed_brick", "cleanup")
       /\ CleanUp("export")
    \/ /\ At("make_holed_brick", "export")
       /\ Export

make_bigbrick ==
    \/ /\ script = "regular_bigbrick"
       /\ pc = "ready"
       /\ ncalls < CallLimit
       /\ \E studs_x, studs_y \in StudCounts, plate_z \in PlateCounts :
            Enter("make_bigbrick", <<studs_x, studs_y, plate_z>>, ~(studs_y < studs_x))
    \/ /\ At("make_bigbrick", "name")
       /\ brick_name' = name_a_bigbrick(call.args[1], call.args[2], call.args[3])
       /\ bigbricks' = dict_set(bigbricks, brick_name', call.args)
       /\ compound_list' = <<>>
       /\ pc' = "hull"
       /\ UNCHANGED <<ncalls, call, pocket_tuple, bricks, rectangular_bricks,
                      holed_bricks, offset, ring_template, finished, doc, exported,
                      scene, fixed>>
    \/ /\ At("make_bigbrick", "hull")
       /\ brick_name \in DOMAIN bigbricks
       /\ Collect(<<bigbrick_create_brick_hull(brick_name)>>, "studs")
       /\ doc' = doc \cup {"outer_prism", "inner_prism", brick_name \o "_hull"}
       /\ UNCHANGED ring_template
    \/ /\ At("make_bigbrick", "studs")
       /\ "studring_template" \in doc
       /\ Collect(bigbrick_add_brick_studs(brick_name), "cones")
       /\ UNCHANGED <<doc, ring_template>>
    \/ /\ At("make_bigbrick", "cones")
       /\ "cone_template" \in doc
       /\ Collect(bigbrick_add_brick_cones(brick_name), "rings")
       /\ UNCHANGED <<doc, ring_template>>
    \/ /\ At("make_bigbrick", "rings")
       \* the template is created, copied and removed inside add_brick_rings
       /\ Collect(bigbrick_add_brick_rings(brick_name), "place")
       /\ UNCHANGED <<doc, ring_template>>
    \/ /\ At("make_bigbrick", "place")
       /\ Place(Compound(brick_name, compound_list, Vector(bigbrick_width_mm * offset, 0, 0)),
                call.args[1] + 1, "export")
    \/ /\ At("make_bigbrick", "export")
       /\ Export

make_corner_brick ==
    \/ /\ script = "corner_brick"
       /\ pc = "ready"
       /\ ncalls < CallLimit
       /\ \E left_length, left_width, bottom_length, bottom_height \in ArmCounts,
          plate_z \in PlateCounts :
            Enter("make_corner_brick",
                 <<left_length, left_width, bottom_length, bottom_height, plate_z>>, TRUE)
    \/ /\ At("make_corner_brick", "name")
       /\ brick_name' = name_a_corner_brick(call.args[1], call.args[2], call.args[3],
                                            call.args[4], call.args[5])
       /\ bricks' = dict_set(bricks, brick_name', call.args)
       /\ compound_list' = <<>>
       /\ pc' = "hull"
       /\ UNCHANGED <<ncalls, call, pocket_tuple, rectangular_bricks, holed_bricks,
                      bigbricks, offset, ring_template, finished, doc, exported,
                      scene, fixed>>
    \/ /\ At("make_corner_brick", "hull")
       /\ brick_name \in DOMAIN bricks
       /\ Collect(<<create_corner_hull(brick_name)>>, "studs")
       /\ doc' = doc \cup {"outer_left_prism", "outer_bottom_prism", "inner_left_prism",
                           "inner_bottom_prism", brick_name \o "_outer",
                           brick_name \o "_inner", brick_name \o "_hull"}
       /\ UNCHANGED ring_template
    \/ /\ At("make_corner_brick", "studs")
       /\ "stud_template" \in doc
       /\ Collect(add_corner_brick_studs(brick_name), "rings")
       /\ UNCHANGED <<doc, ring_template>>
    \/ /\ At("make_corner_brick", "rings")
       \* the template is created, copied and removed inside add_corner_brick_rings
       /\ Collect(add_corner_brick_rings(brick_name), "place")
       /\ UNCHANGED <<doc, ring_template>>
    \/ /\ At("make_corner_brick", "place")
       /\ Place(Compound(brick_name, compound_list, Vector(brick_width_mm * offset, 0, 0)),
                call.args[2] + call.args[3] + 1, "export")
    \/ /\ At("make_corner_brick", "export")
       /\ Export

make_slope_brick ==
    \/ /\ script = "slope_brick"
       /\ pc = "ready"
       /\ ncalls < CallLimit
       /\ \E studs_x, studs_y \in StudCounts, plate_z \in PlateCounts, studs_t \in TopCounts :
            Enter("make_slope_brick", <<studs_x, studs_y, plate_z, studs_t>>, TRUE)
    \/ /\ At("make_slope_brick", "name")
       /\ brick_name' = name_a_slope_brick(call.args[1], call.args[2], call.args[3],
                                           call.args[4])
       /\ bricks' = dict_set(bricks, brick_name', call.args)
       /\ compound_list' = <<>>
       /\ pc' = "hull"
       /\ UNCHANGED <<ncalls, call, pocket_tuple, rectangular_bricks, holed_bricks,
                      bigbricks, offset, ring_template, finished, doc, exported,
                      scene, fixed>>
    \/ /\ At("make_slope_brick", "hull")
       /\ brick_name \in DOMAIN bricks
       /\ Collect(<<slope_create_brick_hull(brick_name)>>, "studs")
       /\ doc' = doc \cup {"outer_prism", "inner_prism", brick_name \o "_hull"}
       /\ UNCHANGED ring_template
    \/ /\ At("make_slope_brick", "studs")
       /\ "stud_template" \in doc
       /\ Collect(slope_add_brick_studs(brick_name), "rings")
       /\ UNCHANGED <<doc, ring_template>>
    \/ /\ At("make_slope_brick", "rings")
       \* the template is created, copied and removed inside add_brick_rings
       /\ Collect(slope_add_brick_rings(brick_name), "place")
       /\ UNCHANGED <<doc, ring_template>>
    \/ /\ At("make_slope_brick", "place")
       /\ LET tmp_brick == Compound(brick_name, compound_list, Vector(0, 0, 0))
              open_slope == Cut(brick_name \o "_open", tmp_brick,
                                create_slope_cutout(brick_name))
              slope == [kind |-> "fuse", name |-> brick_name \o "_finished",
                        base |-> open_slope, tool |-> create_slope_roof(brick_name),
                        at |-> Vector(brick_width_mm * offset, 0, 0)]
          IN  Place(slope, call.args[1] + 1, "export")
    \/ /\ At("make_slope_brick", "export")
       /\ Export

\* the two pockets the driver section of pocket_brick.py makes
PocketExamples ==
    IF menu = "single" THEN {<<10, 16, 9, 3, TRUE>>, <<10, 5, 6, 3, FALSE>>} ELSE {}

create_pocket ==
    \/ /\ script = "pocket_brick"
       /\ pc = "ready"
       /\ ncalls < CallLimit
       /\ \E t \in (StudCounts \X StudCounts \X HeightCounts \X HeightCounts \X BOOLEAN)
                        \cup PocketExamples :
            Enter("create_pocket", t, TRUE)
    \/ /\ At("create_pocket", "name")
       /\ brick_name' = name_a_pocket(call.args[1], call.args[2], call.args[3],
                                      call.args[4], call.args[5])
       /\ pocket_tuple' = <<brick_name', call.args[1], call.args[2], call.args[3],
                            call.args[4]>>
       /\ compound_list' = <<>>
       /\ pc' = "hull"
       /\ UNCHANGED <<ncalls, call, dicts, offset, ring_template, finished, doc,
                      exported, scene, fixed>>
    \/ /\ At("create_pocket", "hull")
       /\ Collect(<<create_pocket_hull(pocket_tuple)>>, "studs")
       /\ doc' = doc \cup {"outer_prism", "inner_prism", brick_name \o "_hull"}
       /\ UNCHANGED ring_template
    \/ /\ At("create_pocket", "studs")
       /\ "stud_template" \in doc
       /\ Collect(add_pocket_top_studs(pocket_tuple), "floor")
       /\ UNCHANGED <<doc, ring_template>>
    \/ /\ At("create_pocket", "floor")
       /\ "stud_template" \in doc
       /\ Collect(IF call.args[5] THEN add_pocket_floor_studs(pocket_tuple) ELSE <<>>,
                  "place")
       /\ UNCHANGED <<doc, ring_template>>
    \/ /\ At("create_pocket", "place")
       \* the pocket script has no offset cursor: the compound stays at the origin
       /\ Place(Compound(brick_name, compound_list, Vector(0, 0, 0)), 0, "export")
    \/ /\ At("create_pocket", "export")
       /\ Export

\* the series the usage comments of the driver section give
SeriesExamples == IF menu = "single" THEN {<<7, 9, 3>>, <<4, 8, 1>>} ELSE {}

make_brick_series_from_one ==
    \/ /\ script = "regular_brick"
       /\ pc = "ready"
       /\ ~series.active
       /\ ncalls < CallLimit
       /\ \E t \in (StudCounts \X StudCounts \X PlateCounts) \cup SeriesExamples :
            series' = [active |-> TRUE, studs_x |-> t[1], studs_y_max |-> t[2],
                       plate_z |-> t[3], i |-> 1]
       /\ ncalls' = ncalls + 1
       /\ UNCHANGED <<pc, call, brick_name, pocket_tuple, dicts, offset, compound_list,
                      ring_template, finished, doc, exported, scene, script, menu,
                      probe, result>>
    \/ /\ pc = "ready"
       /\ series.active
       /\ series.i < series.studs_y_max + 1
       /\ call' = [fn |-> "make_brick",
                   args |-> <<series.studs_x, series.i, series.plate_z>>,
                   accepted |-> ~(series.i < series.studs_x)]
       /\ pc' = IF call'.accepted THEN "name" ELSE "ready"
       /\ series' = [series EXCEPT !.i = series.i + 1]
       /\ UNCHANGED <<ncalls, brick_name, pocket_tuple, dicts, offset, compound_list,
                      ring_template, finished, doc, exported, scene, script, menu,
                      probe, result>>
    \/ /\ pc = "ready"
       /\ series.active
       /\ ~(series.i < series.studs_y_max + 1)
       /\ series' = NoSeries
       /\ UNCHANGED <<ncalls, pc, call, brick_name, pocket_tuple, dicts, offset,
                      compound_list, ring_template, finished, doc, exported, scene,
                      script, menu, probe, result>>

\* for i in range(int(studs_x), int(studs_y_max) + 1):
\*     brick = make_brick(studs_x, i, plate_z)
make_brick_series ==
    \/ /\ script = "regular_brick"
       /\ pc = "ready"
       /\ ~series.active
       /\ ncalls < CallLimit
       /\ \E t \in (StudCounts \X StudCounts \X PlateCounts) \cup SeriesExamples :
            series' = [active |-> TRUE, studs_x |-> t[1], studs_y_max |-> t[2],
                       plate_z |-> t[3], i |-> t[1]]
       /\ ncalls' = ncalls + 1
       /\ UNCHANGED <<pc, call, brick_name, pocket_tuple, dicts, offset, compound_list,
                      ring_template, finished, doc, exported, scene, script, menu,
                      probe, result>>
    \/ /\ pc = "ready"
       /\ series.active
       /\ series.i < series.studs_y_max + 1
       /\ call' = [fn |-> "make_brick",
                   args |-> <<series.studs_x, series.i, series.plate_z>>,
                   accepted |-> ~(series.i < series.studs_x)]
       /\ pc' = IF call'.accepted THEN "name" ELSE "ready"
       /\ series' = [series EXCEPT !.i = series.i + 1]
       /\ UNCHANGED <<ncalls, brick_name, pocket_tuple, dicts, offset, compound_list,
                      ring_template, finished, doc, exported, scene, script, menu,
                      probe, result>>
    \/ /\ pc = "ready"
       /\ series.active
       /\ ~(series.i < series.studs_y_max + 1)
       /\ series' = NoSeries
       /\ UNCHANGED <<ncalls, pc, call, brick_name, pocket_tuple, dicts, offset,
                      compound_list, ring_template, finished, doc, exported, scene,
                      script, menu, probe, result>>

\* the end of the script: the stud templates are removed
Finish ==
    /\ pc = "ready"
    /\ ~series.active
    /\ doc' = doc \ StudTemplates
    /\ pc' = "exit"
    /\ UNCHANGED <<ncalls, call, brick_name, pocket_tuple, dicts, offset, compound_list,
                   ring_template, finished, exported, scene, fixed>>

Next ==
    \/ make_brick
    \/ make_brick_series
    \/ make_rectangle_brick
    \/ make_holed_brick
    \/ make_bigbrick
    \/ make_corner_brick
    \/ make_slope_brick
    \/ create_pocket
    \/ Finish

Spec == Init /\ [][Next]_vars

(***************************************************************************)
(* The same script run twice, each time by a fresh interpreter: the        *)
(* module-level statements run again, so the dictionaries are empty, the   *)
(* offset is 0 and the document is new.  The script of the second run      *)
(* makes the call the first one made.                                      *)
(***************************************************************************)

\* what one run of a script built: the name, the compound with its hull,
\* studs and rings and their placements, the ring template, the files
BuildDescription ==
    [name |-> brick_name, finished |-> finished, compound_list |-> compound_list,
     ring_template |-> ring_template, pocket_tuple |-> pocket_tuple,
     dicts |-> dicts, offset |-> offset, exported |-> exported, scene |-> scene,
     doc |-> doc]

RunAgain_keeping_offset ==
    /\ pc = "exit"
    /\ probe = NoProbe
    /\ ncalls = 1
    /\ call # NoCall
    /\ Len(scene) <= 1
    /\ probe' = [kind |-> "rerun", call |-> call]
    /\ result' = [done |-> TRUE, value |-> BuildDescription]
    /\ ncalls' = 0
    /\ pc' = "ready"
    /\ call' = NoCall
    /\ brick_name' = ""
    /\ pocket_tuple' = <<>>
    /\ bricks' = EmptyDict
    /\ rectangular_bricks' = EmptyDict
    /\ holed_bricks' = EmptyDict
    /\ bigbricks' = EmptyDict
    /\ compound_list' = <<>>
    /\ ring_template' = NoObject
    /\ finished' = NoObject
    /\ doc' = StudTemplates
    /\ exported' = {}
    /\ scene' = <<>>
    /\ UNCHANGED <<script, menu, series, offset>>

\* the script has ended after one generation call; it is started again and
\* its module-level statements give every global its initial value
RunAgain ==
    /\ pc = "exit"
    /\ probe = NoProbe
    /\ ncalls = 1
    /\ call # NoCall
    /\ Len(scene) <= 1
    /\ probe' = [kind |-> "rerun", call |-> call]
    /\ result' = [done |-> TRUE, value |-> BuildDescription]
    /\ ncalls' = 0
    /\ pc' = "ready"
    /\ call' = NoCall
    /\ brick_name' = ""
    /\ pocket_tuple' = <<>>
    /\ bricks' = EmptyDict
    /\ rectangular_bricks' = EmptyDict
    /\ holed_bricks' = EmptyDict
    /\ bigbricks' = EmptyDict
    /\ offset' = 0
    /\ compound_list' = <<>>
    /\ ring_template' = NoObject
    /\ finished' = NoObject
    /\ doc' = StudTemplates
    /\ exported' = {}
    /\ scene' = <<>>
    /\ UNCHANGED <<script, menu, series>>

\* the driver section of the second run holds the call of the first run
SameCall ==
    probe.kind = "rerun" =>
        /\ ~series'.active
        /\ (call' # call => /\ call'.fn = probe.call.fn
                            /\ call'.args = probe.call.args)

InitTwice == Init /\ menu = "single"

NextTwice ==
    \/ Next /\ SameCall
    \/ RunAgain

SpecTwice == InitTwice /\ [][NextTwice]_vars

(***************************************************************************)
(* The pure functions on their own: an input is drawn, the function is     *)
(* applied to it.                                                          *)
(***************************************************************************)
Families == {"brick", "bigbrick", "rectangular", "holed", "corner", "slope", "pocket"}

LabelledFamilies == {"brick", "bigbrick", "rectangular", "holed"}

\* the naming function of a family, applied to a parameter tuple
name_of(family, t) ==
    CASE family = "brick" -> name_a_brick(t[1], t[2], t[3])
      [] family = "bigbrick" -> name_a_bigbrick(t[1], t[2], t[3])
      [] family = "rectangular" -> name_a_rectangular_brick(t[1], t[2], t[3], t[4], t[5])
      [] family = "holed" -> name_a_holed_brick(t[1], t[2], t[3], t[4], t[5])
      [] family = "corner" -> name_a_corner_brick(t[1], t[2], t[3], t[4], t[5])
      [] family = "slope" -> name_a_slope_brick(t[1], t[2], t[3], t[4])
      [] family = "pocket" -> name_a_pocket(t[1], t[2], t[3], t[4], t[5])

\* 1, 11, 111, ...: numerals that are prefixes of one another
RECURSIVE Repunit(_)
Repunit(k) == IF k <= 1 THEN 1 ELSE (10 * Repunit(k - 1)) + 1

PairCounts == {Repunit(k) : k \in 1..MaxProbeDigits}
PairPlates == PairCounts \cup {3}

PairTuples(family) ==
    CASE family \in {"brick", "bigbrick"} -> PairCounts \X PairCounts \X PairPlates
      [] family \in {"rectangular", "holed", "corner"} ->
            PairCounts \X PairCounts \X PairCounts \X PairCounts \X PairPlates
      [] family = "slope" -> PairCounts \X PairCounts \X PairPlates \X PairCounts
      [] family = "pocket" ->
            PairCounts \X PairCounts \X PairCounts \X PairCounts \X BOOLEAN

LabelTuples(family) ==
    IF family \in {"brick", "bigbrick"}
    THEN {1, 2} \X {2} \X ((0 - 3)..MaxProbePlates)
    ELSE {1} \X {1, 2} \X {1} \X {2} \X ((0 - 3)..MaxProbePlates)

\* two families, each pair once
FamilyOrder == <<"brick", "bigbrick", "rectangular", "holed", "corner", "slope", "pocket">>

FamilyPairs ==
    {<<FamilyOrder[q[1]], FamilyOrder[q[2]]>> :
        q \in {r \in (1..Len(FamilyOrder)) \X (1..Len(FamilyOrder)) : r[1] < r[2]}}

CrossCounts == {1, Repunit(MaxProbeDigits)}
CrossPlates == {1, 3}

CrossTuples(family) ==
    CASE family \in {"brick", "bigbrick"} -> CrossCounts \X CrossCounts \X CrossPlates
      [] family \in {"rectangular", "holed", "corner"} ->
            CrossCounts \X CrossCounts \X CrossCounts \X CrossCounts \X CrossPlates
      [] family = "slope" -> CrossCounts \X CrossCounts \X CrossPlates \X CrossCounts
      [] family = "pocket" ->
            CrossCounts \X CrossCounts \X CrossCounts \X CrossCounts \X {0, 1}

\* name_a_pocket tests inner_studs for truth (if inner_studs:): 0 and 1 are
\* as good as False and True
name_in(family, t) ==
    IF family = "pocket"
    THEN name_a_pocket(t[1], t[2], t[3], t[4], t[5] # 0)
    ELSE name_of(family, t)

Probes ==
    [kind : {"convert"}, script : {"regular_brick", "regular_bigbrick"},
     n : (0 - 2)..MaxProbeStuds]
    \cup UNION {[kind : {"cross"}, family_a : {fp[1]}, family_b : {fp[2]},
                 a : CrossTuples(fp[1]), b : CrossTuples(fp[2])] : fp \in FamilyPairs}
    \cup UNION {[kind : {"name"}, family : {f}, args : LabelTuples(f)] :
                    f \in LabelledFamilies}
    \cup UNION {[kind : {"names"}, family : {f}, a : PairTuples(f), b : PairTuples(f)] :
                    f \in Families}

InitPure ==
    /\ script = "none"
    /\ menu = "single"
    /\ series = NoSeries
    /\ ncalls = 0
    /\ pc = "exit"
    /\ call = NoCall
    /\ brick_name = ""
    /\ pocket_tuple = <<>>
    /\ bricks = EmptyDict
    /\ rectangular_bricks = EmptyDict
    /\ holed_bricks = EmptyDict
    /\ bigbricks = EmptyDict
    /\ offset = 0
    /\ compound_list = <<>>
    /\ ring_template = NoObject
    /\ finished = NoObject
    /\ doc = {}
    /\ exported = {}
    /\ scene = <<>>
    /\ probe \in Probes
    /\ result = NoResult

Return(value) ==
    /\ ~result.done
    /\ result' = [done |-> TRUE, value |-> value]
    /\ UNCHANGED <<runvars, probe>>

ApplyConvert ==
    /\ probe.kind = "convert"
    /\ Return(IF probe.script = "regular_bigbrick"
              THEN bigbrick_convert_studs_to_mm(probe.n)
              ELSE convert_studs_to_mm(probe.n))

ApplyName ==
    /\ probe.kind = "name"
    /\ Return(name_of(probe.family, probe.args))

ApplyNames ==
    /\ probe.kind = "names"
    /\ Return(<<name_of(probe.family, probe.a), name_of(probe.family, probe.b)>>)

\* the naming functions of two scripts, each applied to its own tuple
ApplyCross ==
    /\ probe.kind = "cross"
    /\ Return(<<name_in(probe.family_a, probe.a), name_in(probe.family_b, probe.b)>>)

NextPure == ApplyConvert \/ ApplyName \/ ApplyNames \/ ApplyCross

SpecPure == InitPure /\ [][NextPure]_vars

(***************************************************************************)
(* Properties.                                                             *)
(***************************************************************************)

\* a row of n studs, built one stud at a time: the first stud is one pitch
\* wide, every further stud adds a gap and a pitch
RECURSIVE RowLength(_, _, _)
RowLength(n, pitch, gap) ==
    IF n = 1 THEN pitch ELSE RowLength(n - 1, pitch, gap) + gap + pitch

\* C1: for every n >= 1 convert_studs_to_mm(n) is n*pitch + (n-1)*gap, with
\* pitch 7.8 mm (15.8 mm in the bigbrick script) and gap 0.2 mm; for n = 1 it
\* is the pitch alone.
C1_ConvertIsPitchesPlusGaps ==
    (probe.kind = "convert" /\ result.done /\ probe.n >= 1) =>
        LET pitch == IF probe.script = "regular_bigbrick" THEN 15800 ELSE 7800
            gap == 200
        IN  /\ result.value = (probe.n * pitch) + ((probe.n - 1) * gap)
            /\ result.value = RowLength(probe.n, pitch, gap)
            /\ (probe.n = 1 => result.value = pitch)

C1_Witness ==
    /\ probe.kind = "convert" /\ result.done
    /\ probe.script = "regular_brick" /\ probe.n = 4 /\ result.value = 31800

StartsWith(s, prefix) ==
    Len(s) >= Len(prefix) /\ SubSeq(s, 1, Len(prefix)) = prefix

ThicknessLabels == {"plate", "plick", "brick", "doublebrick", "triplebrick",
                    "quadruplebrick", "xbrick", "xplate"}

\* the label the claim gives to a plate count
ClaimedLabel(z) ==
    CASE z = 1 -> "plate"
      [] z = 2 -> "plick"
      [] z = 3 -> "brick"
      [] z = 6 -> "doublebrick"
      [] z = 9 -> "triplebrick"
      [] z = 12 -> "quadruplebrick"
      [] z \notin {1, 2, 3, 6, 9, 12} /\ z % 3 = 0 -> "xbrick"
      [] OTHER -> "xplate"

FamilyPrefix(family) ==
    CASE family = "rectangular" -> "rectangular_"
      [] family = "holed" -> "holed"
      [] OTHER -> ""

\* C5: the thickness label of a Name depends on plateZ alone: 1 plate, 2 plick,
\* 3 brick, 6 doublebrick, 9 triplebrick, 12 quadruplebrick, any other multiple
\* of 3 xbrick, anything else xplate; exactly one label is chosen.
C5_LabelFromPlateZ ==
    (probe.kind = "name" /\ result.done) =>
        LET z == probe.args[Len(probe.args)] IN
        \A label \in ThicknessLabels :
            StartsWith(result.value, FamilyPrefix(probe.family) \o label \o "_")
                <=> (label = ClaimedLabel(z))

C5_Witness ==
    /\ probe.kind = "name" /\ result.done
    /\ probe.family = "brick" /\ probe.args = <<2, 2, 3>>
    /\ result.value = "brick_2x2x3"

\* C6: within a family, equal parameter tuples get equal Names and different
\* tuples get different Names (the counts are integers, the pocket's
\* inner_studs is the boolean its driver comment documents).
C6_NamesInjective ==
    (probe.kind = "names" /\ result.done) =>
        ((result.value[1] = result.value[2]) <=> (probe.a = probe.b))

C6_Witness ==
    /\ probe.kind = "names" /\ result.done
    /\ probe.family = "corner"
    /\ probe.a = <<1, 11, 1, 1, 3>> /\ probe.b = <<11, 1, 1, 1, 3>>
    /\ result.value[1] = "cornerbrick_left_1x11_bottom_1x1_height_3"
    /\ result.value[2] = "cornerbrick_left_11x1_bottom_1x1_height_3"

(***************************************************************************)
(* Properties of a run.                                                    *)
(***************************************************************************)

\* this step is a generation call, made by the driver or by the loop of
\* make_brick_series
CallMade ==
    /\ pc = "ready"
    /\ \/ ncalls' = ncalls + 1 /\ UNCHANGED series
       \/ series.active /\ series'.active /\ series'.i = series.i + 1

\* the body of the current call has built its hull
HullBuilt == call.accepted /\ pc \notin {"name", "hull"}

\* the dictionary the current call's script registers its bricks in; the
\* pocket script has none
Registry ==
    CASE call.fn \in {"make_brick", "make_corner_brick", "make_slope_brick"} -> bricks
      [] call.fn = "make_rectangle_brick" -> rectangular_bricks
      [] call.fn = "make_holed_brick" -> holed_bricks
      [] call.fn = "make_bigbrick" -> bigbricks
      [] OTHER -> EmptyDict

\* the parameter tuple of the current call, in the order its naming function
\* takes it
RegisteredTuple ==
    IF call.fn \in {"make_rectangle_brick", "make_holed_brick"}
    THEN <<call.args[3], call.args[4], call.args[1], call.args[2], call.args[5]>>
    ELSE call.args

\* C2: a conversion of a stud count n <= 0 is an error: no hull is ever built
\* from a call whose hull stage converts a count n <= 0 (a brick with a side
\* of 0 studs or fewer, a pocket whose cavity studs_x - 2 or studs_y - 2 is 0
\* or less).
C2_NonPositiveCountNeverBuilt ==
    LET counts ==
            CASE call.fn = "create_pocket" ->
                    {call.args[1], call.args[2], call.args[1] - 2, call.args[2] - 2}
              [] call.fn \in {"make_brick", "make_bigbrick", "make_slope_brick"} ->
                    {call.args[1], call.args[2]}
              [] OTHER -> {}
    IN  HullBuilt => \A n \in counts : n >= 1

\* C3: a make_brick or make_bigbrick call with studs_y < studs_x returns at
\* once: no name is registered, no object is created, the offset keeps its
\* value and nothing is exported; a call with studs_y >= studs_x is taken up,
\* whatever was rejected before it.
C3_OrientationGuard ==
    [][(CallMade /\ call'.fn \in {"make_brick", "make_bigbrick"}) =>
        IF call'.args[2] < call'.args[1]
        THEN /\ ~call'.accepted
             /\ pc' = "ready"
             /\ UNCHANGED <<brick_name, pocket_tuple, dicts, offset, compound_list,
                            ring_template, finished, doc, exported, scene>>
        ELSE /\ call'.accepted
             /\ pc' = "name"]_vars

\* a valid make_brick call has run to its end after the first call of the
\* batch was rejected
C3_Witness ==
    /\ script = "regular_brick" /\ ncalls = 2 /\ pc = "ready"
    /\ call = [fn |-> "make_brick", args |-> <<1, 2, 3>>, accepted |-> TRUE]
    /\ Len(scene) = 1
    /\ scene[1].at = <<0, 0, 0>>
    /\ DOMAIN bricks = {"brick_1x2x3"}
    /\ offset = 2
    /\ exported = {"/home/paul/FreeCAD/generated_bricks/brick_1x2x3.stl"}

\* C4: a call with a zero or negative stud count, or a holed brick with side
\* width 0, is rejected before anything is built.
C4_InvalidSpecRejected ==
    LET counts ==
            CASE call.fn \in {"make_brick", "make_bigbrick", "create_pocket"} ->
                    {call.args[1], call.args[2]}
              [] call.fn = "make_slope_brick" -> {call.args[1], call.args[2], call.args[4]}
              [] call.fn \in {"make_rectangle_brick", "make_holed_brick",
                              "make_corner_brick"} ->
                    {call.args[1], call.args[2], call.args[3], call.args[4]}
              [] OTHER -> {}
    IN  call.accepted => \A n \in counts : n >= 1

\* C7 as claimed: in every family, the pocket included, an accepted call has
\* its (Name -> parameter tuple) pair in the Registry from the end of naming,
\* before the hull is built, and through every later stage.
C7_EveryFamilyRegisters ==
    (call.accepted /\ pc # "name") =>
        /\ brick_name \in DOMAIN Registry
        /\ Registry[brick_name] = RegisteredTuple
        /\ (pc = "hull" => compound_list = <<>>)

\* C7 amended: in every family but the pocket an accepted call has its
\* (Name -> parameter tuple) pair in the Registry from the end of naming, before
\* the hull is built, and through every later stage; the pocket script has no
\* Registry and hands its stages the tuple (name, x, y, inner, floor) instead.
C7_RegisteredBeforeHull ==
    (call.accepted /\ pc # "name") =>
        /\ (pc = "hull" => compound_list = <<>>)
        /\ IF call.fn = "create_pocket"
           THEN /\ \A i \in 1..Len(dicts) : dicts[i] = EmptyDict
                /\ pocket_tuple = <<brick_name>> \o SubSeq(call.args, 1, 4)
           ELSE /\ brick_name \in DOMAIN Registry
                /\ Registry[brick_name] = RegisteredTuple

C7_Witness ==
    /\ call.fn = "make_holed_brick" /\ call.accepted /\ pc = "hull"
    /\ call.args = <<1, 2, 1, 1, 3>>
    /\ brick_name = "holedbrick_1x1__hole_1x2__height_3"
    /\ holed_bricks[brick_name] = <<1, 1, 1, 2, 3>>
    /\ compound_list = <<>>

\* C8: the dictionaries only grow: a key stays, an entry other than the one
\* being registered keeps its value, and a registration, of a new name or of
\* one already present, goes through and leaves the current call's tuple
\* under the name.
C8_RegistryAppendOnly ==
    [][/\ \A i \in 1..Len(dicts) : \A k \in DOMAIN dicts[i] :
            /\ k \in DOMAIN dicts'[i]
            /\ (dicts'[i][k] # dicts[i][k] => (pc = "name" /\ k = brick_name'))
       /\ (pc = "name" /\ call.fn # "create_pocket") =>
            /\ pc' = "hull"
            /\ brick_name' \in DOMAIN Registry'
            /\ Registry'[brick_name'] = RegisteredTuple]_vars

\* the second call of a batch registers the name the first one registered
C8_Witness ==
    /\ ncalls = 2 /\ pc = "hull" /\ call.fn = "make_brick"
    /\ Len(scene) = 1 /\ scene[1].name = brick_name
    /\ DOMAIN bricks = {brick_name}
    /\ bricks[brick_name] = call.args

\* C9: the hull of a regular, big or slope brick is an outer block of
\* convert(x) by convert(y) by z plate heights with a cavity 2 walls narrower
\* in X and Y and one top thickness lower, placed at (wall, wall, 0); wall 1.5
\* and top 1.0 mm for small bricks, 3.0 and 2.0 mm for big ones.
C9_HullWalls ==
    (HullBuilt /\ call.fn \in {"make_brick", "make_bigbrick", "make_slope_brick"}) =>
        LET big == call.fn = "make_bigbrick"
            pitch == IF big THEN 15800 ELSE 7800
            plate == IF big THEN 9600 ELSE 3200
            wall == IF big THEN 3000 ELSE 1500
            top == IF big THEN 2000 ELSE 1000
            x == call.args[1]
            y == call.args[2]
            z == call.args[3]
            outer == compound_list[1].base
            inner == compound_list[1].tool
        IN  /\ compound_list[1].kind = "cut"
            /\ outer.size = <<(x * pitch) + ((x - 1) * 200),
                              (y * pitch) + ((y - 1) * 200), z * plate>>
            /\ outer.at = <<0, 0, 0>>
            /\ outer.size[1] - inner.size[1] = 2 * wall
            /\ outer.size[2] - inner.size[2] = 2 * wall
            /\ outer.size[3] - inner.size[3] = top
            /\ inner.at = <<wall, wall, 0>>
            /\ (outer.size[1] - (inner.at[1] + inner.size[1])) = inner.at[1]
            /\ (outer.size[2] - (inner.at[2] + inner.size[2])) = inner.at[2]
            /\ ((~big /\ x = 2 /\ y = 4) =>
                    (outer.size[1] = 15800 /\ outer.size[2] = 31800))

C9_Witness ==
    /\ call.fn = "make_brick" /\ call.args = <<2, 4, 3>> /\ pc = "studs"
    /\ compound_list[1].base.size = <<15800, 31800, 9600>>
    /\ compound_list[1].tool.size = <<12800, 28800, 8600>>

\* C10: for a pocket with studs_x, studs_y >= 3 the outer block is
\* (floor + inner) plates high and the cavity is convert(x - 2) by
\* convert(y - 2) by inner plates at (8.0, 8.0, floor plates): the wall is 8.0
\* mm on all four sides, the floor is floor plates thick and the cavity ends
\* at the top of the outer block.
C10_PocketCavity ==
    (HullBuilt /\ call.fn = "create_pocket" /\ call.args[1] >= 3 /\ call.args[2] >= 3) =>
        LET x == call.args[1]
            y == call.args[2]
            inner_height == call.args[3]
            floor_height == call.args[4]
            outer == compound_list[1].base
            cavity == compound_list[1].tool
        IN  /\ compound_list[1].kind = "cut"
            /\ outer.at = <<0, 0, 0>>
            /\ outer.size[3] = (floor_height + inner_height) * 3200
            /\ cavity.size = <<((x - 2) * 7800) + ((x - 3) * 200),
                               ((y - 2) * 7800) + ((y - 3) * 200),
                               inner_height * 3200>>
            /\ cavity.at = <<8000, 8000, floor_height * 3200>>
            /\ cavity.at[1] = 7800 + 200
            /\ outer.size[1] - (cavity.at[1] + cavity.size[1]) = 8000
            /\ outer.size[2] - (cavity.at[2] + cavity.size[2]) = 8000
            /\ cavity.at[3] + cavity.size[3] = outer.size[3]

C10_Witness ==
    /\ call.fn = "create_pocket" /\ pc = "studs"
    /\ call.args = <<3, 4, 2, 1, FALSE>>
    /\ compound_list[1].base.size = <<23800, 31800, 9600>>
    /\ compound_list[1].tool.size = <<7800, 15800, 6400>>
    /\ compound_list[1].tool.at = <<8000, 8000, 3200>>

\* the boxes that are cut out of the hull of the current call
Cavities ==
    LET hull == compound_list[1] IN
    CASE call.fn \in {"make_rectangle_brick", "make_holed_brick"} ->
            {hull.base.base.tool, hull.tool.tool}
      [] call.fn = "make_corner_brick" -> {hull.tool.base, hull.tool.tool}
      [] OTHER -> {hull.tool}

\* C11: every hull that is built has cavities of strictly positive width,
\* length and height; a call that would give a non-positive cavity dimension
\* never gets its hull built.
C11_CavityPositive ==
    HullBuilt => \A box \in Cavities : \A d \in 1..3 : box.size[d] > 0

\* the studs, rings or cones the current call has collected
FeatureIndices(kind) == {k \in 1..Len(compound_list) : compound_list[k].kind = kind}

FeatureCells(kind) ==
    {<<compound_list[k].i, compound_list[k].j>> : k \in FeatureIndices(kind)}

\* the current call has collected its hull and all its features
FeaturesPlaced == call.accepted /\ pc \in {"place", "cleanup", "export", "ready", "exit"}

\* C12: make_brick(x, y, z) with 1 <= x <= y places x*y studs, one on each
\* cell (i, j) with 0 <= i < x and 0 <= j < y and none twice, and
\* (x-1)*(y-1) rings, none when x < 2 or y < 2; 8 studs and 3 rings for
\* (2, 4, 3).
C12_StudAndRingCounts ==
    (FeaturesPlaced /\ call.fn = "make_brick"
            /\ 1 <= call.args[1] /\ call.args[1] <= call.args[2]) =>
        LET x == call.args[1]
            y == call.args[2]
        IN  /\ Cardinality(FeatureIndices("stud")) = x * y
            /\ FeatureCells("stud") = (0..(x - 1)) \X (0..(y - 1))
            /\ Cardinality(FeatureIndices("ring")) = (x - 1) * (y - 1)
            /\ ((x < 2 \/ y < 2) => FeatureIndices("ring") = {})
            /\ Len(compound_list) = 1 + (x * y) + ((x - 1) * (y - 1))
            /\ ((x = 2 /\ y = 4) =>
                    /\ Cardinality(FeatureIndices("stud")) = 8
                    /\ Cardinality(FeatureIndices("ring")) = 3)

C12_Witness ==
    /\ call.fn = "make_brick" /\ call.args = <<2, 4, 3>> /\ pc = "place"
    /\ Cardinality(FeatureIndices("stud")) = 8
    /\ Cardinality(FeatureIndices("ring")) = 3
    /\ FeatureCells("ring") = {<<0, 0>>, <<1, 0>>, <<2, 0>>}

\* the height of the outer block of the current call's hull
HullOuterHeight ==
    LET hull == compound_list[1] IN
    CASE call.fn \in {"make_rectangle_brick", "make_holed_brick"} -> hull.base.base.base.size[3]
      [] call.fn = "make_corner_brick" -> hull.base.base.size[3]
      [] OTHER -> hull.base.size[3]

\* the stud centre spacing of the current call's script
CentreSpacing == IF call.fn = "make_bigbrick" THEN 16000 ELSE 8000

\* where the claim puts the stud of cell (i, j)
ClaimedStudAt(i, j, z) ==
    <<((i + 1) * CentreSpacing) - (CentreSpacing \div 2) - 100,
      ((j + 1) * CentreSpacing) - (CentreSpacing \div 2) - 100, z>>

\* the studs of a pocket come in two groups: the first ntop on top of the
\* wall, the others on the floor
PocketTopStuds ==
    IF call.fn = "create_pocket" /\ pc \in {"place", "export", "ready", "exit"}
    THEN Len(add_pocket_top_studs(pocket_tuple))
    ELSE Len(compound_list)

\* C13 as claimed: in every family every stud sits on a cell of the lattice
\* ((i+1)*P - P/2 - gap/2, (j+1)*P - P/2 - gap/2) at the height of the
\* hull's outer block.
C13_EveryStudOnTop ==
    HullBuilt =>
        \A k \in FeatureIndices("stud") :
            \E i, j \in 0..(MaxWideStuds + 1) :
                compound_list[k].at = ClaimedStudAt(i, j, HullOuterHeight)

\* C13 amended: the stud labelled (i, j) on top of a brick of any family is at
\* ((i+1)*P - P/2 - gap/2, (j+1)*P - P/2 - gap/2, outer height of the hull);
\* the floor stud labelled (i, j) of a pocket is at the position of cell
\* (i+1, j+1) at the height of the floor; studs that follow one another differ
\* by P times the difference of their cells, whatever the brick size.
C13_StudPositions ==
    HullBuilt =>
        \E ntop \in {PocketTopStuds} : \E height \in {HullOuterHeight} :
        \A k \in 2..Len(compound_list) :
            LET stud == compound_list[k] IN
            (stud.kind = "stud") =>
                /\ IF k > 1 + ntop
                   THEN stud.at = ClaimedStudAt(stud.i + 1, stud.j + 1, call.args[4] * 3200)
                   ELSE stud.at = ClaimedStudAt(stud.i, stud.j, height)
                /\ (k < Len(compound_list) /\ k # 1 + ntop
                        /\ compound_list[k + 1].kind = "stud") =>
                        LET next == compound_list[k + 1]
                        IN  /\ next.at[1] - stud.at[1] = CentreSpacing * (next.i - stud.i)
                            /\ next.at[2] - stud.at[2] = CentreSpacing * (next.j - stud.j)
                            /\ next.at[3] = stud.at[3]

C13_Witness ==
    /\ call.fn = "create_pocket" /\ call.args = <<3, 3, 2, 1, TRUE>> /\ pc = "place"
    /\ Len(compound_list) = 10
    /\ compound_list[2].at = <<3900, 3900, 9600>>
    /\ compound_list[3].at = <<3900, 11900, 9600>>
    /\ PocketTopStuds = 8
    /\ compound_list[10].i = 0 /\ compound_list[10].j = 0
    /\ compound_list[10].at = <<11900, 11900, 3200>>

\* C14: a holed brick with hole and side counts >= 1 has no stud on the
\* hole_x * hole_y cells with side_x <= i < side_x + hole_x and
\* side_y <= j < side_y + hole_y, one stud on every other cell of its
\* (hole_x + 2*side_x) by (hole_y + 2*side_y) lattice, and no stud centre
\* inside the rectangle of the hole block.
C14_HoleCellsSuppressed ==
    (FeaturesPlaced /\ call.fn \in {"make_rectangle_brick", "make_holed_brick"}
            /\ \A n \in 1..4 : call.args[n] >= 1) =>
        LET hole_x == call.args[1]
            hole_y == call.args[2]
            side_x == call.args[3]
            side_y == call.args[4]
            lattice == (0..(hole_x + (2 * side_x) - 1)) \X (0..(hole_y + (2 * side_y) - 1))
            hole == {c \in lattice : /\ side_x <= c[1] /\ c[1] < side_x + hole_x
                                     /\ side_y <= c[2] /\ c[2] < side_y + hole_y}
            block == compound_list[1].tool.base
        IN  /\ block.name = "outer_hole"
            /\ Cardinality(hole) = hole_x * hole_y
            /\ FeatureCells("stud") = lattice \ hole
            /\ Cardinality(FeatureIndices("stud")) = Cardinality(lattice) - (hole_x * hole_y)
            /\ \A k \in FeatureIndices("stud") :
                LET at == compound_list[k].at
                IN  ~(/\ block.at[1] <= at[1] /\ at[1] <= block.at[1] + block.size[1]
                      /\ block.at[2] <= at[2] /\ at[2] <= block.at[2] + block.size[2])

C14_Witness ==
    /\ call.fn = "make_holed_brick" /\ call.args = <<1, 2, 1, 1, 3>> /\ pc = "place"
    /\ Cardinality(FeatureIndices("stud")) = 10
    /\ <<1, 1>> \notin FeatureCells("stud") /\ <<1, 2>> \notin FeatureCells("stud")
    /\ compound_list[1].tool.base.at = <<8000, 8000, 0>>
    /\ compound_list[1].tool.base.size = <<7800, 15800, 9600>>

\* C15: the cells of a corner brick that carry a stud are exactly the cells
\* under the L-shaped hull (left arm left_width columns by left_length rows,
\* bottom arm bottom_length + left_width columns by bottom_height rows), and
\* there are left_width*left_length + bottom_length*bottom_height of them.
C15_StudsCoverFootprint ==
    (FeaturesPlaced /\ call.fn = "make_corner_brick" /\ \A n \in 1..4 : call.args[n] >= 1) =>
        LET left_length == call.args[1]
            left_width == call.args[2]
            bottom_length == call.args[3]
            bottom_height == call.args[4]
            left_arm == (0..(left_width - 1)) \X (0..(left_length - 1))
            bottom_arm == (0..(bottom_length + left_width - 1)) \X (0..(bottom_height - 1))
        IN  /\ FeatureCells("stud") = left_arm \cup bottom_arm
            /\ Cardinality(FeatureIndices("stud")) =
                    (left_width * left_length) + (bottom_length * bottom_height)

\* the stud counts among the parameters of a finished brick of the scene
StudArgs(brick) ==
    CASE brick.fn \in {"make_brick", "make_bigbrick"} -> {brick.args[1], brick.args[2]}
      [] brick.fn = "make_slope_brick" -> {brick.args[1], brick.args[2], brick.args[4]}
      [] OTHER -> {brick.args[n] : n \in 1..4}

\* the number of studs a finished brick of the scene is wide
StudsWide(brick) ==
    CASE brick.fn \in {"make_rectangle_brick", "make_holed_brick"} ->
            brick.args[1] + (2 * brick.args[3])
      [] brick.fn = "make_corner_brick" -> brick.args[3] + brick.args[2]
      [] OTHER -> brick.args[1]

\* the end of the X-interval the claim gives a finished brick of the scene
ClaimedRightEdge(brick) ==
    LET n == StudsWide(brick)
        unit == IF brick.fn = "make_bigbrick" THEN 15800 ELSE 7800
    IN  brick.at[1] + (n * unit) + ((n - 1) * 200)

\* C16: the X-intervals [X, X + convert(studs wide)] of any two bricks of a
\* run of a script with an offset cursor are disjoint, for every (positive)
\* stud count.
C16_NoOverlap ==
    \A a, b \in 1..Len(scene) :
        (/\ a < b
         /\ scene[a].fn # "create_pocket"
         /\ \A n \in StudArgs(scene[a]) \cup StudArgs(scene[b]) : n >= 1) =>
            ClaimedRightEdge(scene[a]) < scene[b].at[1]

\* the files of the first n finished bricks of the scene
MeshFiles(n) == {export_directory \o scene[k].name \o ".stl" : k \in 1..n}

\* C17: the files written are export_directory + Name + ".stl" of the
\* accepted calls that have run to their export, one per Name and nothing
\* else; the file of a brick is written only after the brick is assembled and
\* placed; a rejected call writes none.
C17_ExportsMatchAccepted ==
    /\ exported = MeshFiles(IF pc \in {"cleanup", "export"}
                            THEN Len(scene) - 1 ELSE Len(scene))
    /\ (pc = "export" =>
            /\ call.accepted
            /\ scene[Len(scene)].name = brick_name
            /\ finished # NoObject
            /\ brick_name \in doc)
    /\ ((~call.accepted /\ call # NoCall) => pc \in {"ready", "exit"})

\* two accepted calls of one name have written one file
C17_Witness ==
    /\ pc = "ready" /\ Len(scene) = 2
    /\ scene[1].name = scene[2].name
    /\ scene[1].name = "cornerbrick_left_1x1_bottom_1x1_height_3"
    /\ exported = {"/home/paul/FreeCAD/generated_bricks/cornerbrick_left_1x1_bottom_1x1_height_3.stl"}


SeriesMade == series.i - series.studs_x

\* the scene entry of the k-th brick of the running series
SeriesBrick(k) == scene[(Len(scene) - SeriesMade) + k]

\* C19: make_brick_series(studs_x, studs_y_max, plate_z) makes the bricks
\* (studs_x, y, plate_z) for y = studs_x, ..., studs_y_max in that order and
\* nothing else: between two iterations the bricks made so far are the last
\* entries of the scene, in order (all of the scene when the series is the
\* first statement of the driver); ...
C19_SeriesBetweenIterations ==
    (series.active /\ pc = "ready") =>
        /\ series.i >= series.studs_x
        /\ series.i <= (IF series.studs_y_max < series.studs_x
                        THEN series.studs_x ELSE series.studs_y_max + 1)
        /\ Len(scene) >= SeriesMade
        /\ (menu = "single" => Len(scene) = SeriesMade)
        /\ \A k \in 1..SeriesMade :
              /\ SeriesBrick(k).fn = "make_brick"
              /\ SeriesBrick(k).args =
                    <<series.studs_x, (series.studs_x + k) - 1, series.plate_z>>
              /\ SeriesBrick(k).name =
                    name_a_brick(series.studs_x, (series.studs_x + k) - 1, series.plate_z)

\* ... every call of the loop is make_brick(studs_x, i, plate_z) with the
\* next i and passes the orientation guard, the scene grows only by the brick
\* of the call in progress, and the loop ends after studs_y_max - studs_x + 1
\* bricks (after none when studs_y_max < studs_x).
C19_SeriesStep ==
    /\ (series.active /\ series'.active /\ series'.i # series.i) =>
          /\ series'.i = series.i + 1
          /\ call' = [fn |-> "make_brick",
                      args |-> <<series.studs_x, series.i, series.plate_z>>,
                      accepted |-> TRUE]
          /\ pc' = "name"
    /\ (series.active /\ scene' # scene) =>
          /\ scene' = Append(scene, scene'[Len(scene')])
          /\ scene'[Len(scene')].args =
                <<series.studs_x, series.i - 1, series.plate_z>>
    /\ (series.active /\ ~series'.active) =>
          /\ pc = "ready"
          /\ SeriesMade = (IF series.studs_y_max < series.studs_x
                           THEN 0 ELSE (series.studs_y_max - series.studs_x) + 1)
          /\ scene' = scene
    /\ (~series.active /\ series'.active) =>
          /\ series'.i = series'.studs_x
          /\ scene' = scene

C19_MakeBrickSeries == [](C19_SeriesBetweenIterations) /\ [][C19_SeriesStep]_vars

C19_Witness ==
    /\ series.active
    /\ pc = "ready"
    /\ series.studs_x = 7 /\ series.studs_y_max = 9 /\ series.plate_z = 3
    /\ series.i = 10
    /\ Len(scene) = 3
    /\ scene[1].args = <<7, 7, 3>> /\ scene[2].args = <<7, 8, 3>>
    /\ scene[3].args = <<7, 9, 3>>
    /\ scene[3].name = "brick_7x9x3"
    /\ exported = {export_directory \o "brick_7x7x3.stl",
                   export_directory \o "brick_7x8x3.stl",
                   export_directory \o "brick_7x9x3.stl"}


\* C20: two specs of different families never get the same name; in
\* particular a regular brick and a big brick with the same numbers get
\* different names.
C20_FamiliesNeverShareName ==
    (probe.kind = "cross" /\ result.done) => result.value[1] # result.value[2]

\* the only families whose naming functions return a common name are the
\* regular brick and the big brick, and they do so on equal numbers
C20_OnlyBigSharesRegular ==
    (probe.kind = "cross" /\ result.done /\ result.value[1] = result.value[2]) =>
        /\ probe.family_a = "brick"
        /\ probe.family_b = "bigbrick"
        /\ probe.a = probe.b


\* the value of the cursor after the first k bricks of the scene
RECURSIVE CursorAfter(_)
CursorAfter(k) == IF k = 0 THEN 0 ELSE CursorAfter(k - 1) + StudsWide(scene[k]) + 1

\* the width the cursor counts in
UnitWidth == IF script = "regular_bigbrick" THEN bigbrick_width_mm ELSE brick_width_mm

\* C21: in a run of a script with an offset cursor the cursor starts at 0 and
\* is advanced once per finished brick by the brick's stud count along X
\* plus one, after the placement has read it: the k-th brick of the scene is
\* at X = unit width * (sum over the earlier bricks of studs wide + 1),
\* Y = Z = 0, the cursor is that sum over all bricks placed so far, and a
\* call that is rejected or has not yet placed its brick has not moved it.
C21_OffsetCursor ==
    script \in Scripts \ {"pocket_brick"} =>
        /\ offset = CursorAfter(Len(scene))
        /\ \A k \in 1..Len(scene) :
              scene[k].at = Vector(UnitWidth * CursorAfter(k - 1), 0, 0)
        /\ (scene = <<>> => offset = 0)
        /\ (finished # NoObject => finished.at = scene[Len(scene)].at)

C21_Witness ==
    /\ script = "holed_brick"
    /\ pc = "ready"
    /\ Len(scene) = 2
    /\ scene[1].args = <<1, 1, 1, 1, 3>>
    /\ scene[1].at = Vector(0, 0, 0)
    /\ scene[2].at = Vector(31200, 0, 0)
    /\ scene[2].args = <<1, 1, 0, 1, 3>>
    /\ offset = 6
    /\ call.accepted


\* the interval a finished pocket of the scene covers along axis d (1 = X, 2 = Y)
PocketLow(brick, d) == brick.at[d]
PocketHigh(brick, d) == brick.at[d] + convert_studs_to_mm(brick.args[d])

\* C22: the XY extents of any two pockets finished in one run do not
\* intersect: along X or along Y one of the two ends before the other starts.
C22_PocketsDisjoint ==
    \A a, b \in 1..Len(scene) :
        (/\ a < b
         /\ scene[a].fn = "create_pocket"
         /\ scene[b].fn = "create_pocket"
         /\ \A d \in 1..2 : scene[a].args[d] >= 1 /\ scene[b].args[d] >= 1) =>
            \E d \in 1..2 :
                \/ PocketHigh(scene[a], d) <= PocketLow(scene[b], d)
                \/ PocketHigh(scene[b], d) <= PocketLow(scene[a], d)


\* the current call has built the hull of a brick with a hole, and its
\* sides, its hole and its height are at least one stud or plate
HoledHullBuilt ==
    /\ HullBuilt
    /\ call.fn \in {"make_rectangle_brick", "make_holed_brick"}
    /\ \A n \in 1..5 : call.args[n] >= 1

\* the box that is cut out of the solid, and the box cut out of that box
OuterHole == compound_list[1].tool.base
InnerHole == compound_list[1].tool.tool

\* C23 as stated: the hole block, convert(hole_x) by convert(hole_y) and as
\* high as the hull, is at X = convert(side_x) + gap/2, Y = convert(side_y) +
\* gap/2.
C23_HoleAtHalfGap ==
    HoledHullBuilt =>
        LET t == RegisteredTuple IN
        /\ OuterHole.size = <<RowLength(t[3], 7800, 200), RowLength(t[4], 7800, 200), HullOuterHeight>>
        /\ OuterHole.at = <<RowLength(t[1], 7800, 200) + 100, RowLength(t[2], 7800, 200) + 100, 0>>

\* C23, amended: the hole block, convert(hole_x) by convert(hole_y) and as
\* high as the hull, is at X = convert(side_x) + gap, Y = convert(side_y) + gap
\* (a whole gap: the lattice line side * 8.0 mm) in holed_brick.py, and at
\* X = convert(side_x), Y = convert(side_y) (no margin) in regular_brick.py;
\* Z = 0 in both.
C23_HolePosition ==
    HoledHullBuilt =>
        LET t == RegisteredTuple
            margin == IF call.fn = "make_holed_brick" THEN 200 ELSE 0
        IN  /\ OuterHole.name = "outer_hole"
            /\ OuterHole.size = <<RowLength(t[3], 7800, 200), RowLength(t[4], 7800, 200), t[5] * 3200>>
            /\ OuterHole.size[3] = HullOuterHeight
            /\ OuterHole.at = <<RowLength(t[1], 7800, 200) + margin, RowLength(t[2], 7800, 200) + margin, 0>>
            /\ (call.fn = "make_holed_brick" =>
                    OuterHole.at = <<t[1] * 8000, t[2] * 8000, 0>>)

C23_Witness ==
    /\ pc = "studs"
    /\ call.fn = "make_rectangle_brick"
    /\ call.args = <<1, 1, 2, 1, 3>>
    /\ OuterHole.at = <<15800, 7800, 0>>
    /\ OuterHole.size = <<7800, 7800, 9600>>

\* C24: the wall around the hole is wall_thickness_mm = 1.5 mm thick on all
\* four sides: the inner hole starts 1.5 mm after the outer hole starts and
\* ends 1.5 mm before it ends, in X and in Y.
C24_HoleWallEven ==
    HoledHullBuilt =>
        \A d \in 1..2 :
            /\ InnerHole.at[d] - OuterHole.at[d] = 1500
            /\ (OuterHole.at[d] + OuterHole.size[d])
                    - (InnerHole.at[d] + InnerHole.size[d]) = 1500


\* the distance from coordinate c to the interval [lo, hi], 0 inside it
AxisDistance(c, lo, hi) == IF c < lo THEN lo - c ELSE IF c > hi THEN c - hi ELSE 0

\* the disc of a ring centred at centre meets the XY rectangle of box
DiscMeetsBox(centre, box) ==
    LET dx == AxisDistance(centre[1], box.at[1], box.at[1] + box.size[1])
        dy == AxisDistance(centre[2], box.at[2], box.at[2] + box.size[2])
    IN  /\ dx <= ring_radius_outer_mm
        /\ dy <= ring_radius_outer_mm
        /\ (dx * dx) + (dy * dy) <= ring_radius_outer_mm * ring_radius_outer_mm

\* where the ring of crossing (i, j) goes
CrossingCentre(c) == <<(8000 * (c[1] + 1)) - 100, (8000 * (c[2] + 1)) - 100, 0>>

\* C25: in a brick with a hole, all counts at least 1, the crossings without
\* a ring are exactly the (i, j) with side_x-1 <= i < side_x+hole_x and
\* side_y-1 <= j < side_y+hole_y, (hole_x+1)*(hole_y+1) of the (X-1)*(Y-1)
\* crossings; no ring's disc (radius 3.25 mm) meets the XY rectangle of the
\* hole block, and the disc of every crossing left without a ring would meet
\* it.
C25_HoleRingsSuppressed ==
    (FeaturesPlaced /\ call.fn \in {"make_rectangle_brick", "make_holed_brick"}
            /\ \A n \in 1..5 : call.args[n] >= 1) =>
        LET hole_x == call.args[1]
            hole_y == call.args[2]
            side_x == call.args[3]
            side_y == call.args[4]
            crossings == (0..(hole_x + (2 * side_x) - 2)) \X (0..(hole_y + (2 * side_y) - 2))
            bare == {c \in crossings : /\ side_x - 1 <= c[1] /\ c[1] < side_x + hole_x
                                       /\ side_y - 1 <= c[2] /\ c[2] < side_y + hole_y}
        IN  /\ Cardinality(bare) = (hole_x + 1) * (hole_y + 1)
            /\ FeatureCells("ring") = crossings \ bare
            /\ Cardinality(FeatureIndices("ring")) =
                    Cardinality(crossings) - ((hole_x + 1) * (hole_y + 1))
            /\ \A k \in FeatureIndices("ring") :
                  /\ compound_list[k].at =
                        CrossingCentre(<<compound_list[k].i, compound_list[k].j>>)
                  /\ ~DiscMeetsBox(compound_list[k].at, OuterHole)
            /\ \A c \in bare : DiscMeetsBox(CrossingCentre(c), OuterHole)

C25_Witness ==
    /\ pc = "place"
    /\ call.fn = "make_holed_brick"
    /\ call.args = <<1, 1, 2, 2, 3>>
    /\ Cardinality(FeatureIndices("ring")) = 12
    /\ <<0, 1>> \in FeatureCells("ring")
    /\ <<1, 1>> \notin FeatureCells("ring")
    /\ <<2, 2>> \notin FeatureCells("ring")
    /\ <<3, 2>> \in FeatureCells("ring")


\* the disc of a ring centred at centre lies within the XY rectangle of box
DiscInsideBox(centre, box) ==
    \A d \in 1..2 :
        /\ box.at[d] <= centre[d] - ring_radius_outer_mm
        /\ centre[d] + ring_radius_outer_mm <= box.at[d] + box.size[d]

\* C26: in a corner brick with all counts at least 1 and bottom_height <=
\* left_length, crossing (i, j) with 0 <= i < bottom_length + left_width - 1
\* and 0 <= j < left_length - 1 carries a ring exactly when i < left_width - 1
\* or j < bottom_height - 1; the disc of every ring lies within the left arm
\* or within the bottom arm of the hull; the concave corner crossing
\* (left_width - 1, bottom_height - 1) and the crossings of the cut-out carry
\* none; there are (left_width-1)*(left_length-1) + bottom_length*(bottom_height-1)
\* rings.
C26_CornerRings ==
    (FeaturesPlaced /\ call.fn = "make_corner_brick"
            /\ \A n \in 1..5 : call.args[n] >= 1
            /\ call.args[4] <= call.args[1]) =>
        LET left_length == call.args[1]
            left_width == call.args[2]
            bottom_length == call.args[3]
            bottom_height == call.args[4]
            crossings == (0..(bottom_length + left_width - 2)) \X (0..(left_length - 2))
            ringed == {c \in crossings : c[1] < left_width - 1 \/ c[2] < bottom_height - 1}
            left_arm == compound_list[1].base.base
            bottom_arm == compound_list[1].base.tool
        IN  /\ left_arm.name = "outer_left_prism"
            /\ bottom_arm.name = "outer_bottom_prism"
            /\ FeatureCells("ring") = ringed
            /\ Cardinality(FeatureIndices("ring")) =
                    ((left_width - 1) * (left_length - 1))
                        + (bottom_length * (bottom_height - 1))
            /\ <<left_width - 1, bottom_height - 1>> \notin FeatureCells("ring")
            /\ \A c \in FeatureCells("ring") :
                  ~(c[1] >= left_width - 1 /\ c[2] >= bottom_height - 1)
            /\ \A k \in FeatureIndices("ring") :
                  /\ compound_list[k].at =
                        CrossingCentre(<<compound_list[k].i, compound_list[k].j>>)
                  /\ \/ DiscInsideBox(compound_list[k].at, left_arm)
                     \/ DiscInsideBox(compound_list[k].at, bottom_arm)

C26_Witness ==
    /\ pc = "place"
    /\ call.fn = "make_corner_brick"
    /\ call.args = <<3, 2, 1, 2, 3>>
    /\ FeatureCells("ring") = {<<0, 0>>, <<0, 1>>, <<1, 0>>}
    /\ Cardinality(FeatureIndices("ring")) = 3
    /\ compound_list[1].base.tool.size = <<23800, 15800, 9600>>


\* the stud of cell (a, b) of a brick that is y studs long: the studs follow
\* the hull in the compound list, column by column
StudOfCell(a, b, y) == compound_list[2 + (a * y) + b]

\* C27: in a regular, slope or big brick of x by y studs the rings are
\* centred, one each, at ((unit + gap)*(a+1) - gap/2, (unit + gap)*(b+1) -
\* gap/2, 0) for the crossings 0 <= a < x-1, 0 <= b < y-1 (unit 7.8 mm, big
\* 15.8 mm; whatever label the ring carries), which is the midpoint of the
\* centres of the studs of cells (a,b), (a+1,b), (a,b+1), (a+1,b+1); a ring
\* is as high as the hull minus the top thickness, which is the height of
\* the cavity, and its inner radius is smaller than its outer radius.
C27_RingsBetweenStuds ==
    (FeaturesPlaced /\ call.fn \in {"make_brick", "make_slope_brick", "make_bigbrick"}
            /\ \A n \in 1..3 : call.args[n] >= 1) =>
        LET x == call.args[1]
            y == call.args[2]
            step == CentreSpacing
            top == IF call.fn = "make_bigbrick" THEN 2000 ELSE 1000
        IN  \E rings \in {FeatureIndices("ring")} :
            /\ Cardinality(rings) = (x - 1) * (y - 1)
            /\ {compound_list[k].at : k \in rings} =
                    {<<(step * (a + 1)) - 100, (step * (b + 1)) - 100, 0>> :
                        a \in 0..(x - 2), b \in 0..(y - 2)}
            /\ \A k \in rings :
                  LET ring == compound_list[k]
                      a == ((ring.at[1] + 100) \div step) - 1
                      b == ((ring.at[2] + 100) \div step) - 1
                      corners == {StudOfCell(a, b, y), StudOfCell(a + 1, b, y),
                                  StudOfCell(a, b + 1, y), StudOfCell(a + 1, b + 1, y)}
                  IN  /\ \A stud \in corners : stud.kind = "stud"
                      /\ {<<stud.i, stud.j>> : stud \in corners} =
                            {<<a, b>>, <<a + 1, b>>, <<a, b + 1>>, <<a + 1, b + 1>>}
                      /\ \A stud \in corners :
                            /\ (2 * ring.at[1]) - stud.at[1] \in {q.at[1] : q \in corners}
                            /\ (2 * ring.at[2]) - stud.at[2] \in {q.at[2] : q \in corners}
                            /\ stud.at[1] # ring.at[1]
                            /\ stud.at[2] # ring.at[2]
                      /\ ring.shape.base.height = HullOuterHeight - top
                      /\ ring.shape.tool.height = ring.shape.base.height
                      /\ ring.shape.base.height = compound_list[1].tool.size[3]
                      /\ compound_list[1].tool.at[3] = 0
                      /\ ring.shape.tool.radius < ring.shape.base.radius

C27_Witness ==
    /\ pc = "place"
    /\ call.fn = "make_bigbrick"
    /\ call.args = <<2, 3, 2>>
    /\ {compound_list[k].at : k \in FeatureIndices("ring")} =
            {<<15900, 15900, 0>>, <<15900, 31900, 0>>}
    /\ \A k \in FeatureIndices("ring") : compound_list[k].shape.base.height = 17200


\* the lattice cell a stud at position at is centred on
CellAt(at) == <<((at[1] + 4100) \div 8000) - 1, ((at[2] + 4100) \div 8000) - 1>>

\* C28: a pocket of x by y studs, x and y at least 2, has its top studs
\* exactly on the cells of the perimeter (i = 0, i = x-1, j = 0 or j = y-1),
\* x*y - (x-2)*(y-2) of them, at z = (inner + floor) * 3.2 mm; it has floor
\* studs if and only if inner studs are asked for, and then exactly on the
\* (x-2)*(y-2) cells of the interior (1 <= i <= x-2, 1 <= j <= y-2), at
\* z = floor * 3.2 mm; perimeter and interior are disjoint and make up the
\* lattice.
C28_PocketStuds ==
    (FeaturesPlaced /\ call.fn = "create_pocket"
            /\ call.args[1] >= 2 /\ call.args[2] >= 2) =>
        LET x == call.args[1]
            y == call.args[2]
            lattice == (0..(x - 1)) \X (0..(y - 1))
            perimeter == {c \in lattice : c[1] = 0 \/ c[1] = x - 1 \/ c[2] = 0 \/ c[2] = y - 1}
            interior == {c \in lattice : /\ 1 <= c[1] /\ c[1] <= x - 2
                                         /\ 1 <= c[2] /\ c[2] <= y - 2}
        IN  \E ntop \in {PocketTopStuds} :
            LET on_top == 2..(1 + ntop)
                on_floor == (2 + ntop)..Len(compound_list)
            IN  /\ \A k \in on_top \cup on_floor :
                      /\ compound_list[k].kind = "stud"
                      /\ compound_list[k].at[1] = (8000 * CellAt(compound_list[k].at)[1]) + 3900
                      /\ compound_list[k].at[2] = (8000 * CellAt(compound_list[k].at)[2]) + 3900
                /\ ntop = (x * y) - ((x - 2) * (y - 2))
                /\ {CellAt(compound_list[k].at) : k \in on_top} = perimeter
                /\ \A k \in on_top :
                      compound_list[k].at[3] = (call.args[3] + call.args[4]) * 3200
                /\ (on_floor # {}) = (call.args[5] /\ interior # {})
                /\ (call.args[5] =>
                      /\ Len(compound_list) - (1 + ntop) = (x - 2) * (y - 2)
                      /\ {CellAt(compound_list[k].at) : k \in on_floor} = interior
                      /\ \A k \in on_floor : compound_list[k].at[3] = call.args[4] * 3200)
                /\ perimeter \cap interior = {}
                /\ perimeter \cup interior = lattice

C28_Witness ==
    /\ pc = "place"
    /\ call.fn = "create_pocket"
    /\ call.args = <<10, 16, 9, 3, TRUE>>
    /\ PocketTopStuds = 48
    /\ Len(compound_list) = 161
    /\ compound_list[50].at = <<11900, 11900, 9600>>
    /\ compound_list[2].at = <<3900, 3900, 38400>>


\* twice the signed area of the triangle p, q, r of the sketch plane (X to
\* the right, height up), in units of 25 micrometres: positive when r is to
\* the left of the line from p to q
LeftOf(p, q, r) ==
    (((q[1] - p[1]) \div 25) * ((r[2] - p[2]) \div 25))
        - (((q[2] - p[2]) \div 25) * ((r[1] - p[1]) \div 25))

\* the point (x, z) lies in the profile, whose four points go round
\* counter-clockwise
InProfile(points, x, z) ==
    \A k \in 1..4 : LeftOf(points[k], points[(k % 4) + 1], <<x, z>>) >= 0

\* the cut-out is the profile padded from Y = 0 over its length (Reversed = 1);
\* a stud is removed as a whole when the box around it lies in the cut-out
StudInCutout(stud, pad) ==
    /\ \A x \in {stud.at[1] - stud.shape.radius, stud.at[1] + stud.shape.radius} :
       \A z \in {stud.at[3], stud.at[3] + stud.shape.height} :
            InProfile(pad.points, x, z)
    /\ 0 <= stud.at[2] - stud.shape.radius
    /\ stud.at[2] + stud.shape.radius <= pad.length

\* no point of the stud lies in the cut-out or on its border: the stud ends
\* before the profile begins
StudClearOfCutout(stud, pad) ==
    \A k \in 1..4 : stud.at[1] + stud.shape.radius < pad.points[k][1]

\* C29: in a slope brick of x by y studs with t top studs, 1 <= t < x, the
\* cut-out has the profile (W, 1.6), (W, H + 1.7), (Wt, H + 1.7), (Wt, H), with
\* W = convert(x), Wt = convert(t), H = z * 3.2 mm, padded over convert(y); it
\* holds every stud of the columns i >= t as a whole and touches no stud of
\* the columns i < t, so that t*y studs stay, on a top convert(t) wide.
C29_SlopeCutout ==
    (/\ call.accepted /\ call.fn = "make_slope_brick" /\ pc \in {"export", "ready", "exit"}
     /\ \A n \in 1..4 : call.args[n] >= 1
     /\ call.args[4] < call.args[1]) =>
        LET x == call.args[1]
            y == call.args[2]
            t == call.args[4]
            H == call.args[3] * 3200
            pad == finished.base.tool
            links == finished.base.base.links
        IN  /\ finished.base.kind = "cut"
            /\ links = compound_list
            /\ pad.points = << <<RowLength(x, 7800, 200), 1600, 0>>,
                               <<RowLength(x, 7800, 200), H + 1700, 0>>,
                               <<RowLength(t, 7800, 200), H + 1700, 0>>,
                               <<RowLength(t, 7800, 200), H, 0>> >>
            /\ pad.length = RowLength(y, 7800, 200)
            /\ \A k \in 2..Len(links) :
                  (links[k].kind = "stud") =>
                      IF links[k].i >= t
                      THEN StudInCutout(links[k], pad)
                      ELSE StudClearOfCutout(links[k], pad)
            /\ Cardinality({k \in 2..((x * y) + 1) : links[k].i < t}) = t * y
            /\ \A k \in 2..((x * y) + 1) : links[k].kind = "stud"

C29_Witness ==
    /\ pc = "export"
    /\ call.fn = "make_slope_brick"
    /\ call.args = <<3, 2, 3, 1>>
    /\ finished.base.tool.points[3] = <<7800, 11300, 0>>
    /\ finished.base.tool.points[1] = <<23800, 1600, 0>>
    /\ StudInCutout(compound_list[4], finished.base.tool)
    /\ compound_list[4].i = 1
    /\ StudClearOfCutout(compound_list[2], finished.base.tool)


\* a generation call is running
InCall == pc \notin {"ready", "exit"}

\* C30, what holds in every state: the stud templates exist from the start of
\* the script to its end, so during every generation call, and are gone after
\* it; the ring template and its two cylinders exist together or not at all,
\* and only between the ring stage of a brick and its clean-up, so never at
\* the start of a call, never between two calls and never twice; the rings
\* placed while the template exists are copies of it.
C30_TemplatesInEveryState ==
    /\ (pc # "exit" => StudTemplates \subseteq doc)
    /\ (pc = "exit" => StudTemplates \cap doc = {})
    /\ (ring_template # NoObject =>
            /\ pc \in {"place", "cleanup"}
            /\ call.accepted
            /\ RingTemplateObjects \subseteq doc
            /\ ring_template.name = "ring_template"
            /\ \A k \in 2..Len(compound_list) :
                  compound_list[k].kind = "ring" => compound_list[k].shape = ring_template)
    /\ (ring_template = NoObject => RingTemplateObjects \cap doc = {})

\* C30, what holds of every step: the stud templates are removed only by the
\* end of the script, after which no call is made; a ring template is
\* created only when none exists, by the ring stage of a brick, and removed
\* before that brick is exported; studs are copied only while the stud
\* templates exist and every ring that is added is a copy of a ring template.
C30_TemplateSteps ==
    /\ ((StudTemplates \subseteq doc /\ ~(StudTemplates \subseteq doc')) =>
            pc = "ready" /\ pc' = "exit")
    /\ (pc = "exit" => pc' = "exit")
    /\ ((ring_template = NoObject /\ ring_template' # NoObject) =>
            /\ pc = "rings"
            /\ RingTemplateObjects \cap doc = {})
    /\ ((ring_template # NoObject /\ ring_template' = NoObject) =>
            /\ pc = "cleanup"
            /\ pc' = "export"
            /\ exported' = exported)
    /\ (ring_template # NoObject => (ring_template' = ring_template \/ ring_template' = NoObject))
    /\ (Len(compound_list') > Len(compound_list) =>
            /\ StudTemplates \subseteq doc
            /\ \A k \in (Len(compound_list) + 1)..Len(compound_list') :
                  compound_list'[k].kind = "ring" =>
                      /\ compound_list'[k].shape.name = "ring_template"
                      /\ compound_list'[k].shape.kind = "cut"
                      /\ (ring_template' # NoObject =>
                            compound_list'[k].shape = ring_template'))

C30_TemplateLifecycle == [](C30_TemplatesInEveryState) /\ [][C30_TemplateSteps]_vars

C30_Witness ==
    /\ script = "regular_brick"
    /\ menu = "batch"
    /\ ncalls = 2
    /\ Len(scene) = 1
    /\ pc = "place"
    /\ call.fn = "make_brick"
    /\ call.args = <<2, 2, 3>>
    /\ ring_template # NoObject
    /\ RingTemplateObjects \subseteq doc
    /\ "stud_template" \in doc
    /\ Len(compound_list) = 6
    /\ compound_list[6].shape = ring_template

====
